---- MODULE Spec2Model ----
(***************************************************************************)
(* Patchboard routing fabric of the filetalk repository.                   *)
(*                                                                         *)
(*   IntraFlow  (src/src/intraflow/intraflow.py): in-process two-phase     *)
(*              dataflow runtime (route_everything, then                   *)
(*              activate_one_turn_per_component).                          *)
(*   Router     (src/src/patchboard_router/router.py): filesystem router   *)
(*              daemon with the la-la delivery policy and the JSONL        *)
(*              event log.                                                 *)
(*                                                                         *)
(* Specifications:                                                         *)
(*   Spec        IntraFlow cycle engine driven by run(cycles)              *)
(*   RouterSpec  router delivery passes, control inputs, event log         *)
(*   RouterLive  RouterSpec's main loop under weak fairness of the tick    *)
(***************************************************************************)
EXTENDS Integers, Sequences, FiniteSets, TLC

VARIABLES
    \* ---- IntraFlow (intraflow.py) ----
    components,     \* registry: component ids in insertion order (dict order)
    always_active,  \* comp["always_active"] of every component object
    routes,         \* routing table: list of route records
    inbox,          \* comp["inbox"]  of every component object
    outbox,         \* comp["outbox"] of every component object
    pc,             \* position in run(): "idle" | "cycle" | "check" | "done"
    phase,          \* position in run_cycle(): index into run_cycle
    idx,            \* position of activate_one_turn_per_component's loop
    cycles,         \* the argument of run(cycles)
    cycle,          \* number of run_cycle() calls started by run
    now,            \* number of make_message() calls so far (the clock)
    \* ---- IntraFlow history variables ----
    born,           \* born[t]: cycle in which the message stamped t was made
    emitter,        \* emitter[t]: the component whose outbox the message
                    \* stamped t was emitted to ("" if it was put in an inbox)
    seed,           \* the inboxes as they were when run() was called
    preInbox,       \* the inboxes  as route_everything last found them
    preOutbox,      \* the outboxes as route_everything last found them
    acts,           \* activations of each component in the current Phase 2
    lastObs,        \* the last (component, message, cycle) an activation saw
    context,        \* g["component"] and g["msg"], the activation context
    \* ---- IntraFlow adapters and payloads (intraflow.py) ----
    adapter_kind,   \* comp["adapter_kind"] of every component object ("" if none)
    store,          \* the list / queue / directory an adapter component wraps
    payload,        \* content of every signal payload object
    \* ---- IntraFlow registry and wiring console (intraflow.py) ----
    objects,        \* the component dicts created so far: objects[o] is the "id"
                    \* key of object o ("" for an anonymous component)
    comp_of,        \* components[id] as an object, 0 if id is not registered
    lastOp,         \* history: the last registry / table call and its outcome
    \* ---- Router (router.py) ----
    rpc,            \* position in cmd_run()
    mode,           \* g["mode"]: "normal" | "draining"
    quit_requested, \* g["quit_requested"]
    tick,           \* g["tick"]
    rroutes,        \* g["routes"]
    routes_dirty,   \* g["routes_dirty"]
    state_dirty,    \* g["state_dirty"]
    stats,          \* g["stats"]
    discard_unrouted, \* app.ctx["router.discard_unrouted"]
    events,         \* the lines of events.jsonl
    dirs,           \* the message folders that exist
    files,          \* the *.json files of the message folders
    ctl_inbox,      \* the *.json files of router INBOX
    acks,           \* acknowledgement files written at ack-paths
    routes_json,    \* routes.json
    status_json,    \* status.json
    nextName,       \* number of file names generated so far
    \* ---- Router history variables ----
    dropped,        \* number of message files external producers wrote
    sent,           \* number of control files clients wrote
    fails,          \* number of message writes that raised OSError
    lastPass,       \* what the last delivery pass found, planned and did
    \* ---- write_json_atomic (router.py) ----
    disk,           \* the files of the directories the router writes into
    wr              \* the write_json_atomic call in progress and its position

flowVars == <<components, always_active, routes, inbox, outbox, pc, phase, idx,
              cycles, cycle, now, born, emitter, seed, preInbox, preOutbox, acts, lastObs,
              context>>

routerVars == <<rpc, mode, quit_requested, tick, rroutes, routes_dirty, state_dirty,
                stats, discard_unrouted, events, dirs, files, ctl_inbox, acks,
                routes_json, status_json, nextName, dropped, sent, fails, lastPass>>

hostVars == <<adapter_kind, store, payload>>

tableVars == <<objects, comp_of, lastOp>>

writeVars == <<disk, wr>>

vars == <<flowVars, routerVars, hostVars, tableVars, writeVars>>

\* ------------------------------------------------------------------ bounds
MaxCycles == 3      \* run(cycles) arguments 0..MaxCycles; cap of the cycle count
MaxMsgs   == 4      \* make_message() calls in one behaviour
MaxSeed   == 2      \* messages put into an inbox before run()
MaxEmit   == 1      \* emit_signal() calls of one activation
MaxTick   == 3      \* delivery passes in one behaviour
MaxFiles  == 1      \* message files external producers write
MaxSent   == 2      \* control files clients write to router INBOX
MaxFail   == 1      \* message writes that raise OSError in one behaviour
MaxEdits  == 1      \* mutations of one signal payload object
MaxObjs   == 2      \* component dicts created in one behaviour
MaxRoutes == 2      \* routes in the IntraFlow table
MaxLinks  == 2      \* channel links staged in the wiring console
MaxDocs   == 2      \* successive documents written to one path
MaxChunks == 2      \* flushes in which one document reaches its file

\* ------------------------------------------------------------ value spaces
Refs     == {"p", "q", "r", "anon"}   \* component objects; "anon" has no id
Channels == {"a", "b"}
Signals  == {"s1", "s2"}

Max(x, y) == IF x >= y THEN x ELSE y

SeqsUpTo(S, n) == UNION {[1..k -> S] : k \in 0..n}

Range(s) == {s[i] : i \in 1..Len(s)}

NoMsg == [channel |-> "", signal |-> "", timestamp |-> 0]   \* Python None

\* g["component"] = None, g["msg"] = None
NoContext == [component |-> "", msg |-> NoMsg]

\* ------------------------------------------------------------ message model
make_message(channel, signal, t) ==
    [channel |-> channel, signal |-> signal, timestamp |-> t]

emit_signal_to_inbox(boxes, comp, msg) ==
    [boxes EXCEPT !.inbox[comp] = Append(@, msg)]

\* emit_signal: append the message to the activating component's outbox.
\* boxes = [inbox |-> ..., outbox |-> ...], the queues of all components.
emit_signal(boxes, comp, msg) ==
    [boxes EXCEPT !.outbox[comp] = Append(@, msg)]

\* ------------------------------------------------------- route_everything
Route(s, sc, d, dc) ==
    [src_id |-> IF s = "anon" THEN "" ELSE s, src |-> s, src_channel |-> sc,
     dest_id |-> IF d = "anon" THEN "" ELSE d, dest |-> d, dest_channel |-> dc,
     persistent |-> FALSE]

\* Keys of route_index in dict (first insertion) order.
RECURSIVE route_index_keys_from(_, _, _)
route_index_keys_from(rs, i, acc) ==
    IF i > Len(rs) THEN acc
    ELSE route_index_keys_from(rs, i + 1,
            IF rs[i].src \in Range(acc) THEN acc ELSE Append(acc, rs[i].src))

route_index_keys(rs) == route_index_keys_from(rs, 1, <<>>)

channel_map_first_only(rs, src, channel) ==
    LET all == SelectSeq(rs, LAMBDA r : r.src = src /\ r.src_channel = channel)
    IN  IF all = <<>> THEN <<>> ELSE <<Head(all)>>

\* route_index[src].get(channel, []): the routes of src on channel, in table order.
channel_map(rs, src, channel) ==
    SelectSeq(rs, LAMBDA r : r.src = src /\ r.src_channel = channel)

new_msg_keeps_channel(msg, dest_channel) ==
    [channel |-> msg.channel, signal |-> msg.signal, timestamp |-> msg.timestamp]

\* The message route_everything builds for one destination.
new_msg(msg, dest_channel) ==
    [channel |-> dest_channel, signal |-> msg.signal, timestamp |-> msg.timestamp]

RECURSIVE deliver_fanout_prepends(_, _, _)
deliver_fanout_prepends(inb, msg, fanout) ==
    IF fanout = <<>> THEN inb
    ELSE LET r == Head(fanout)
         IN  deliver_fanout_prepends(
                 [inb EXCEPT ![r.dest] = <<new_msg(msg, r.dest_channel)>> \o @],
                 msg, Tail(fanout))

\* for (dest, dest_channel) in fanout: dest["inbox"].append(new_msg)
RECURSIVE deliver_fanout(_, _, _)
deliver_fanout(inb, msg, fanout) ==
    IF fanout = <<>> THEN inb
    ELSE LET r == Head(fanout)
         IN  deliver_fanout(
                 [inb EXCEPT ![r.dest] = Append(@, new_msg(msg, r.dest_channel))],
                 msg, Tail(fanout))

RECURSIVE route_msgs(_, _, _, _)
route_msgs(rs, inb, src, msgs) ==
    IF msgs = <<>> THEN inb
    ELSE route_msgs(rs,
             deliver_fanout(inb, Head(msgs), channel_map(rs, src, Head(msgs).channel)),
             src, Tail(msgs))

RECURSIVE route_sources(_, _, _)
route_sources(rs, boxes, keys) ==
    IF keys = <<>> THEN boxes
    ELSE LET src == Head(keys)
         IN  route_sources(rs,
                 [inbox  |-> route_msgs(rs, boxes.inbox, src, boxes.outbox[src]),
                  outbox |-> [boxes.outbox EXCEPT ![src] = <<>>]],
                 Tail(keys))

route_everything_all_components(rs, boxes) ==
    LET res == route_sources(rs, boxes, route_index_keys(rs))
    IN  [res EXCEPT !.outbox = [c \in Refs |-> <<>>]]

route_everything(rs, boxes) == route_sources(rs, boxes, route_index_keys(rs))

\* --------------------------------------- activate_one_turn_per_component
take_turn_drains_inbox(inb, comp) ==
    [msg |-> IF inb[comp] # <<>> THEN Head(inb[comp]) ELSE NoMsg,
     inbox |-> [inb EXCEPT ![comp] = <<>>]]

\* msg = comp["inbox"].pop(0) if has_message else None
take_turn(inb, comp) ==
    [msg |-> IF inb[comp] # <<>> THEN Head(inb[comp]) ELSE NoMsg,
     inbox |-> [inb EXCEPT ![comp] = IF @ # <<>> THEN Tail(@) ELSE @]]

skips_turn_without_message(inb, always, comp) == inb[comp] = <<>>

\* if not has_message and not always: continue
skips_turn(inb, always, comp) ==
    LET has_message == inb[comp] # <<>>
    IN  ~has_message /\ ~always[comp]

\* An ordinary activation: emits the messages ems (channel, signal pairs) in order.
RECURSIVE activation(_, _, _, _)
activation(boxes, comp, ems, t) ==
    IF ems = <<>> THEN boxes
    ELSE activation(
             emit_signal(boxes, comp,
                         make_message(Head(ems).channel, Head(ems).signal, t + 1)),
             comp, Tail(ems), t + 1)

\* ------------------------------------------------------------------ run loop
run_cycle_activate_first == <<"activate", "route">>

\* run_cycle(): route_everything() then activate_one_turn_per_component().
run_cycle == <<"route", "activate">>

is_quiescent_inboxes_only(comps, inb, outb) ==
    \A i \in 1..Len(comps) : inb[comps[i]] = <<>>

is_quiescent(comps, inb, outb) ==
    \A i \in 1..Len(comps) : inb[comps[i]] = <<>> /\ outb[comps[i]] = <<>>

run_stops_when_quiescent(n, done, quiescent) ==
    IF quiescent THEN FALSE ELSE IF n > 0 THEN done < n ELSE TRUE

\* Whether run(n) calls run_cycle() again after `done` cycles.
run_continues(n, done, quiescent) ==
    IF n > 0 THEN done < n ELSE ~quiescent

\* --------------------------------------------------------------- topologies
\* Registry, always_active flags and routing table as built before run().
Topologies ==
    { \* fanout p:a -> q:a, r:b ; pipeline q:a -> r:a ; r routes nothing
      [components |-> <<"p", "q", "r">>, always |-> {},
       routes |-> <<Route("p", "a", "q", "a"), Route("p", "a", "r", "b"),
                    Route("q", "a", "r", "a")>>],
      \* duplicate route, self loop, anonymous source; q is always active
      [components |-> <<"q", "p">>, always |-> {"q"},
       routes |-> <<Route("anon", "a", "p", "b"), Route("p", "b", "q", "a"),
                    Route("p", "b", "q", "a"), Route("q", "b", "q", "a")>>],
      \* interleaved sources in the table; q is the source of no route
      [components |-> <<"p", "q", "r">>, always |-> {"r"},
       routes |-> <<Route("r", "a", "q", "b"), Route("p", "a", "q", "a"),
                    Route("r", "b", "p", "a")>>] }

SeedMsgs(chs, first) ==
    [i \in 1..Len(chs) |->
        make_message(chs[i], IF i % 2 = 1 THEN "s1" ELSE "s2", first + i - 1)]

EmptyBoxes == [c \in Refs |-> <<>>]

FlowInit ==
    \E t \in Topologies, inSeed \in SeqsUpTo(Channels, MaxSeed),
       outSeed \in SeqsUpTo(Channels, 1), holder \in {"p", "q", "anon"} :
        /\ components = t.components
        /\ always_active = [c \in Refs |-> c \in t.always]
        /\ routes = t.routes
        /\ inbox = [EmptyBoxes EXCEPT !["p"] = SeedMsgs(inSeed, 1)]
        /\ outbox = [EmptyBoxes EXCEPT ![holder] = SeedMsgs(outSeed, Len(inSeed) + 1)]
        /\ now = Len(inSeed) + Len(outSeed)
        /\ born = [i \in 1..(Len(inSeed) + Len(outSeed)) |-> 0]
        /\ emitter = [i \in 1..(Len(inSeed) + Len(outSeed)) |->
                          IF i <= Len(inSeed) THEN "" ELSE holder]
        /\ seed = [EmptyBoxes EXCEPT !["p"] = SeedMsgs(inSeed, 1)]
        /\ pc = "idle"
        /\ phase = 1
        /\ idx = 1
        /\ cycles = 0
        /\ cycle = 0
        /\ preInbox = EmptyBoxes
        /\ preOutbox = EmptyBoxes
        /\ acts = [c \in Refs |-> 0]
        /\ lastObs = [comp |-> "", msg |-> NoMsg, cycle |-> 0]
        /\ context = NoContext

\* ------------------------------------------------------------------ actions
InPhase(name) == pc = "cycle" /\ run_cycle[phase] = name

\* What follows the end of one phase of run_cycle.
EndPhase ==
    IF phase < Len(run_cycle)
    THEN /\ phase' = phase + 1
         /\ pc' = "cycle"
    ELSE /\ phase' = 1
         /\ pc' = "check"

\* run(n): the call, entering the first run_cycle().
Run ==
    /\ pc = "idle"
    /\ \E n \in 0..MaxCycles : cycles' = n
    /\ pc' = "cycle"
    /\ phase' = 1
    /\ idx' = 1
    /\ cycle' = 1
    /\ UNCHANGED <<context, components, always_active, routes, inbox, outbox, now, born, emitter,
                   seed, preInbox, preOutbox, acts, lastObs>>
    /\ UNCHANGED <<routerVars, hostVars, tableVars, writeVars>>

\* Phase 1 of run_cycle.
RouteEverything ==
    /\ InPhase("route")
    /\ LET res == route_everything(routes, [inbox |-> inbox, outbox |-> outbox])
       IN  /\ inbox' = res.inbox
           /\ outbox' = res.outbox
    /\ preInbox' = inbox
    /\ preOutbox' = outbox
    /\ acts' = [c \in Refs |-> 0]
    /\ idx' = 1
    /\ EndPhase
    /\ UNCHANGED <<context, components, always_active, routes, cycles, cycle, now, born, emitter,
                   seed, lastObs>>
    /\ UNCHANGED <<routerVars, hostVars, tableVars, writeVars>>

\* Phase 2 of run_cycle: one iteration of the loop over components.values().
ActivateTurn ==
    /\ InPhase("activate")
    /\ idx <= Len(components)
    /\ adapter_kind[components[idx]] = ""
    /\ LET comp == components[idx]
       IN  IF skips_turn(inbox, always_active, comp)
           THEN UNCHANGED <<inbox, outbox, now, born, emitter, acts, lastObs>>
           ELSE \E ems \in SeqsUpTo([channel : Channels, signal : Signals], MaxEmit) :
                  /\ now + Len(ems) <= MaxMsgs
                  /\ LET turn == take_turn(inbox, comp)
                         res == activation([inbox |-> turn.inbox, outbox |-> outbox],
                                           comp, ems, now)
                     IN  /\ inbox' = res.inbox
                         /\ outbox' = res.outbox
                         /\ lastObs' = [comp |-> comp, msg |-> turn.msg, cycle |-> cycle]
                  /\ now' = now + Len(ems)
                  /\ born' = born \o [i \in 1..Len(ems) |-> cycle]
                  /\ emitter' = emitter \o [i \in 1..Len(ems) |-> comp]
                  /\ acts' = [acts EXCEPT ![comp] = @ + 1]
    /\ idx' = idx + 1
    /\ UNCHANGED <<context, components, always_active, routes, pc, phase, cycles, cycle,
                   seed, preInbox, preOutbox>>
    /\ UNCHANGED <<routerVars, hostVars, tableVars, writeVars>>

\* g["msg"]["signal"][...] = ...: an activation changes the payload object of
\* the message it received.
mutate_signal(content, msg) == [content EXCEPT ![msg.signal] = @ + 1]

\* Phase 2 of run_cycle: one iteration of the loop, for a component whose
\* activation mutates the signal payload of the message it is given.
MutatingTurn ==
    /\ InPhase("activate")
    /\ idx <= Len(components)
    /\ adapter_kind[components[idx]] = ""
    /\ inbox[components[idx]] # <<>>
    /\ LET comp == components[idx]
           turn == take_turn(inbox, comp)
       IN  /\ payload[turn.msg.signal] < MaxEdits
           /\ inbox' = turn.inbox
           /\ payload' = mutate_signal(payload, turn.msg)
           /\ lastObs' = [comp |-> comp, msg |-> turn.msg, cycle |-> cycle]
           /\ acts' = [acts EXCEPT ![comp] = @ + 1]
    /\ idx' = idx + 1
    /\ UNCHANGED <<context, components, always_active, routes, outbox, pc, phase, cycles,
                   cycle, now, born, emitter, seed, preInbox, preOutbox>>
    /\ UNCHANGED <<routerVars, adapter_kind, store, tableVars, writeVars>>

\* Phase 2 of run_cycle: the loop is exhausted.
ActivateDone ==
    /\ InPhase("activate")
    /\ idx > Len(components)
    /\ idx' = 1
    /\ EndPhase
    /\ UNCHANGED <<context, components, always_active, routes, inbox, outbox, cycles, cycle,
                   now, born, emitter, seed, preInbox, preOutbox, acts, lastObs>>
    /\ UNCHANGED <<routerVars, hostVars, tableVars, writeVars>>

\* run(n): after a run_cycle(), call it again or return.
RunLoop ==
    /\ pc = "check"
    /\ IF run_continues(cycles, cycle, is_quiescent(components, inbox, outbox))
       THEN /\ cycle < MaxCycles
            /\ cycle' = cycle + 1
            /\ pc' = "cycle"
       ELSE /\ pc' = "done"
            /\ cycle' = cycle
    /\ UNCHANGED <<context, components, always_active, routes, inbox, outbox, phase, idx,
                   cycles, now, born, emitter, seed, preInbox, preOutbox, acts, lastObs>>
    /\ UNCHANGED <<routerVars, hostVars, tableVars, writeVars>>


\* ---------------------------------------------------------------- adapters
\* Phase 2 of run_cycle, one iteration of the loop step by step: the
\* component is skipped.
SkipTurn ==
    /\ InPhase("activate")
    /\ idx <= Len(components)
    /\ skips_turn(inbox, always_active, components[idx])
    /\ idx' = idx + 1
    /\ UNCHANGED <<context, components, always_active, routes, inbox, outbox, pc,
                   phase, cycles, cycle, now, born, emitter, seed, preInbox,
                   preOutbox, acts, lastObs>>
    /\ UNCHANGED <<routerVars, hostVars, tableVars, writeVars>>

\* msg = comp["inbox"].pop(0) if has_message else None; g["component"] = comp;
\* g["msg"] = msg; the activation is entered.
InstallTurn ==
    /\ InPhase("activate")
    /\ idx <= Len(components)
    /\ ~skips_turn(inbox, always_active, components[idx])
    /\ LET comp == components[idx]
           turn == take_turn(inbox, comp)
       IN  /\ inbox' = turn.inbox
           /\ context' = [component |-> comp, msg |-> turn.msg]
           /\ lastObs' = [comp |-> comp, msg |-> turn.msg, cycle |-> cycle]
           /\ acts' = [acts EXCEPT ![comp] = @ + 1]
    /\ pc' = "activation"
    /\ UNCHANGED <<components, always_active, routes, outbox, phase, idx, cycles,
                   cycle, now, born, emitter, seed, preInbox, preOutbox>>
    /\ UNCHANGED <<routerVars, hostVars, tableVars, writeVars>>

\* comp["activation"]() returns; g["component"] = None; g["msg"] = None.
ActivationReturns ==
    /\ pc = "activation"
    /\ \E ems \in SeqsUpTo([channel : Channels, signal : Signals], MaxEmit) :
          /\ now + Len(ems) <= MaxMsgs
          /\ LET res == activation([inbox |-> inbox, outbox |-> outbox],
                                   context.component, ems, now)
             IN  /\ inbox' = res.inbox
                 /\ outbox' = res.outbox
          /\ now' = now + Len(ems)
          /\ born' = born \o [i \in 1..Len(ems) |-> cycle]
          /\ emitter' = emitter \o [i \in 1..Len(ems) |-> context.component]
    /\ context' = NoContext
    /\ idx' = idx + 1
    /\ pc' = "cycle"
    /\ UNCHANGED <<components, always_active, routes, phase, cycles, cycle, seed,
                   preInbox, preOutbox, acts, lastObs>>
    /\ UNCHANGED <<routerVars, hostVars, tableVars, writeVars>>

\* comp["activation"]() raises: the exception leaves the loop,
\* activate_one_turn_per_component, run_cycle and run; no handler runs.
ActivationFault ==
    /\ pc = "activation"
    /\ pc' = "raised"
    /\ UNCHANGED <<context, components, always_active, routes, inbox, outbox,
                   phase, idx, cycles, cycle, now, born, emitter, seed, preInbox,
                   preOutbox, acts, lastObs>>
    /\ UNCHANGED <<routerVars, hostVars, tableVars, writeVars>>

\* run(n): after a run_cycle(), call it again or return, however many cycles
\* have run; the history variable cycle stops counting at MaxCycles.
RunLoopOn ==
    /\ pc = "check"
    /\ IF run_continues(cycles, cycle, is_quiescent(components, inbox, outbox))
       THEN /\ cycle' = IF cycle < MaxCycles THEN cycle + 1 ELSE cycle
            /\ pc' = "cycle"
       ELSE /\ pc' = "done"
            /\ cycle' = cycle
    /\ UNCHANGED <<context, components, always_active, routes, inbox, outbox, phase, idx,
                   cycles, now, born, emitter, seed, preInbox, preOutbox, acts, lastObs>>
    /\ UNCHANGED <<routerVars, hostVars, tableVars, writeVars>>

AdapterKinds == {"list", "queue", "filetalk"}

\* st = [inbox, outbox, store]: the queues of the adapter component and the
\* container it wraps.
\* while lst: comp["outbox"].append(lst.pop(0))
container_to_outbox(st) ==
    [st EXCEPT !.outbox = @ \o st.store, !.store = <<>>]

\* while comp["inbox"]: lst.append(comp["inbox"].pop(0))
inbox_to_container(st) ==
    [st EXCEPT !.store = @ \o st.inbox, !.inbox = <<>>]

\* _activation of populate_list.
populate_list(st) == inbox_to_container(container_to_outbox(st))

\* _activation of populate_queue.
populate_queue(st) == inbox_to_container(container_to_outbox(st))

\* _activation of populate_filetalk with an outgoing directory and no incoming
\* one; due: check_after_n_ms have passed since last_checked_timestamp.
populate_filetalk(st, due) ==
    IF due THEN inbox_to_container(st) ELSE st

adapter_activation(kind, st, due) ==
    CASE kind = "list"     -> populate_list(st)
      [] kind = "queue"    -> populate_queue(st)
      [] kind = "filetalk" -> populate_filetalk(st, due)

\* A registry with one adapter component, wired to an ordinary component.
AdapterTopologies ==
    { [components |-> <<"p", "q">>, adapter |-> "q",
       routes |-> <<Route("p", "a", "q", "a"), Route("p", "b", "q", "b"),
                    Route("q", "a", "p", "a")>>],
      [components |-> <<"q", "p">>, adapter |-> "q",
       routes |-> <<Route("p", "a", "q", "b"), Route("p", "b", "q", "b")>>] }

AdapterSetup ==
    \E t \in AdapterTopologies, kind \in AdapterKinds,
       outSeed \in SeqsUpTo(Channels, MaxSeed) :
        /\ components = t.components
        /\ always_active = [c \in Refs |-> c = t.adapter]
        /\ adapter_kind = [c \in Refs |-> IF c = t.adapter THEN kind ELSE ""]
        /\ store = EmptyBoxes
        /\ payload = [s \in Signals |-> 0]
        /\ routes = t.routes
        /\ inbox = EmptyBoxes
        /\ outbox = [EmptyBoxes EXCEPT !["p"] = SeedMsgs(outSeed, 1)]
        /\ now = Len(outSeed)
        /\ born = [i \in 1..Len(outSeed) |-> 0]
        /\ emitter = [i \in 1..Len(outSeed) |-> "p"]
        /\ seed = EmptyBoxes
        /\ pc = "idle"
        /\ phase = 1
        /\ idx = 1
        /\ cycles = 0
        /\ cycle = 0
        /\ preInbox = EmptyBoxes
        /\ preOutbox = EmptyBoxes
        /\ acts = [c \in Refs |-> 0]
        /\ lastObs = [comp |-> "", msg |-> NoMsg, cycle |-> 0]
        /\ context = NoContext

\* Phase 2 of run_cycle: the iteration of the loop for an adapter component.
\* The scheduler pops the head of the inbox into g["msg"] and then calls the
\* adapter's _activation, which reads comp["inbox"] only.
AdapterTurn ==
    /\ InPhase("activate")
    /\ idx <= Len(components)
    /\ adapter_kind[components[idx]] # ""
    /\ LET comp == components[idx]
           has_message == inbox[comp] # <<>>
       IN  IF ~has_message /\ ~always_active[comp]
           THEN UNCHANGED <<inbox, outbox, store, acts, lastObs>>
           ELSE \E due \in BOOLEAN :
                  LET turn == take_turn(inbox, comp)
                      res == adapter_activation(adapter_kind[comp],
                                 [inbox |-> turn.inbox[comp], outbox |-> outbox[comp],
                                  store |-> store[comp]], due)
                  IN  /\ inbox' = [turn.inbox EXCEPT ![comp] = res.inbox]
                      /\ outbox' = [outbox EXCEPT ![comp] = res.outbox]
                      /\ store' = [store EXCEPT ![comp] = res.store]
                      /\ lastObs' = [comp |-> comp, msg |-> turn.msg, cycle |-> cycle]
                      /\ acts' = [acts EXCEPT ![comp] = @ + 1]
    /\ idx' = idx + 1
    /\ UNCHANGED <<context, components, always_active, routes, pc, phase, cycles, cycle,
                   now, born, emitter, seed, preInbox, preOutbox>>
    /\ UNCHANGED <<adapter_kind, payload>>
    /\ UNCHANGED <<routerVars, tableVars, writeVars>>

\* The host application takes the next message out of the wrapped container
\* (lst.pop(0), q.get_nowait(), or reading and removing a file).
HostTake ==
    /\ pc \in {"idle", "check", "done"}
    /\ \E c \in Refs :
          /\ store[c] # <<>>
          /\ store' = [store EXCEPT ![c] = Tail(@)]
    /\ UNCHANGED <<flowVars, routerVars, adapter_kind, payload, tableVars, writeVars>>


\* ------------------------------------------- registry, table, wiring console
\* Component objects are numbered in creation order; 0 stands for None.  Two
\* component dicts compare equal (==) when their contents do: components that
\* never received a message nor an activation differ only in their "id" key.
Ids == {"x", "y"}

NoRoute ==
    [src_id |-> "", src |-> 0, src_channel |-> "", dest_id |-> "", dest |-> 0,
     dest_channel |-> "", persistent |-> FALSE]

\* A route dict as a caller builds it; src / dest 0 and ids "" are absent keys.
RouteDict(src_id, src, src_channel, dest_id, dest, dest_channel, persistent) ==
    [src_id |-> src_id, src |-> src, src_channel |-> src_channel,
     dest_id |-> dest_id, dest |-> dest, dest_channel |-> dest_channel,
     persistent |-> persistent]

\* comp_a == comp_b on component dicts.
component_eq(objs, a, b) == objs[a] = objs[b]

\* route_a == route_b on route dicts: key by key, the endpoints by ==.
route_eq(objs, r1, r2) ==
    /\ r1.src_id = r2.src_id
    /\ component_eq(objs, r1.src, r2.src)
    /\ r1.src_channel = r2.src_channel
    /\ r1.dest_id = r2.dest_id
    /\ component_eq(objs, r1.dest, r2.dest)
    /\ r1.dest_channel = r2.dest_channel
    /\ r1.persistent = r2.persistent

\* routes.remove(r): drops the first element that compares equal to r.
RECURSIVE list_remove(_, _, _)
list_remove(objs, rs, r) ==
    IF rs = <<>> THEN <<>>
    ELSE IF route_eq(objs, Head(rs), r) THEN Tail(rs)
    ELSE <<Head(rs)>> \o list_remove(objs, Tail(rs), r)

\* for r in to_remove: routes.remove(r)
RECURSIVE remove_each(_, _, _)
remove_each(objs, rs, to_remove) ==
    IF to_remove = <<>> THEN rs
    ELSE remove_each(objs, list_remove(objs, rs, Head(to_remove)), Tail(to_remove))

\* delist_component(comp): the table it leaves.
delist_component(objs, rs, comp) ==
    LET to_remove == SelectSeq(rs, LAMBDA r : r.src = comp \/ r.dest = comp)
    IN  remove_each(objs, rs, to_remove)

resolve_endpoint_trusts_ref(reg, ref, id) ==
    IF ref = 0
    THEN IF id = "" THEN [raised |-> TRUE, ref |-> 0]
         ELSE IF reg[id] = 0 THEN [raised |-> TRUE, ref |-> 0]
         ELSE [raised |-> FALSE, ref |-> reg[id]]
    ELSE [raised |-> FALSE, ref |-> ref]

\* add_route, "Resolve src" / "Resolve dest": the ref the route is bound to, or
\* the ValueError.
resolve_endpoint(reg, ref, id) ==
    IF ref = 0
    THEN IF id = "" THEN [raised |-> TRUE, ref |-> 0]
         ELSE IF reg[id] = 0 THEN [raised |-> TRUE, ref |-> 0]
         ELSE [raised |-> FALSE, ref |-> reg[id]]
    ELSE IF id # "" /\ reg[id] # ref THEN [raised |-> TRUE, ref |-> 0]
    ELSE [raised |-> FALSE, ref |-> ref]

persistence_ok_src_only(route) ==
    route.persistent => route.src_id # ""

\* add_route, "Validate persistence": no ValueError.
persistence_ok(route) ==
    route.persistent => (route.src_id # "" /\ route.dest_id # "")

\* add_route(route) of intraflow.py: [raised, routes].
intraflow_add_route(reg, rs, route) ==
    LET src == resolve_endpoint(reg, route.src, route.src_id)
        dest == resolve_endpoint(reg, route.dest, route.dest_id)
    IN  IF src.raised \/ dest.raised \/ ~persistence_ok(route)
        THEN [raised |-> TRUE, routes |-> rs]
        ELSE [raised |-> FALSE,
              routes |-> Append(rs, [route EXCEPT !.src = src.ref, !.dest = dest.ref])]

route_matches(route, src, src_channel, dest, dest_channel) ==
    /\ route.src = src
    /\ route.src_channel = src_channel
    /\ route.dest = dest
    /\ route.dest_channel = dest_channel

last_match(rs, src, src_channel, dest, dest_channel) ==
    LET hits == {i \in 1..Len(rs) :
                    route_matches(rs[i], src, src_channel, dest, dest_channel)}
    IN  IF hits = {} THEN 0 ELSE CHOOSE i \in hits : \A j \in hits : j <= i

\* remove_route: the index the loop stops at, 0 if it runs to the end.
first_match(rs, src, src_channel, dest, dest_channel) ==
    LET hits == {i \in 1..Len(rs) :
                    route_matches(rs[i], src, src_channel, dest, dest_channel)}
    IN  IF hits = {} THEN 0 ELSE CHOOSE i \in hits : \A j \in hits : i <= j

intraflow_remove_route_all_matches(rs, src, src_channel, dest, dest_channel) ==
    [ret |-> first_match(rs, src, src_channel, dest, dest_channel) # 0,
     routes |-> SelectSeq(rs, LAMBDA r :
                    ~route_matches(r, src, src_channel, dest, dest_channel))]

\* remove_route(src, src_channel, dest, dest_channel) of intraflow.py:
\* [ret, routes].
intraflow_remove_route(rs, src, src_channel, dest, dest_channel) ==
    LET i == first_match(rs, src, src_channel, dest, dest_channel)
    IN  IF i = 0 THEN [ret |-> FALSE, routes |-> rs]
        ELSE [ret |-> TRUE,
              routes |-> SubSeq(rs, 1, i - 1) \o SubSeq(rs, i + 1, Len(rs))]

\* The wiring console. An endpoint is addressed by ref (a component dict) or
\* by id (a string); [ref 0, id ""] is None.
Endpoint(ref, id) == [ref |-> ref, id |-> id]

NoWire ==
    [src |-> Endpoint(0, ""), dest |-> Endpoint(0, ""), persist |-> FALSE,
     links |-> <<>>]

address_source_keeps_links(w, x) == [w EXCEPT !.src = x, !.persist = FALSE]

address_source(w, x) == [w EXCEPT !.src = x, !.persist = FALSE, !.links = <<>>]

address_dest(w, x) == [w EXCEPT !.dest = x]

persist_links(w) == [w EXCEPT !.persist = TRUE]

is_none(x) == x.ref = 0 /\ x.id = ""

\* link_channels: [raised, wire].
link_channels(w, src_channel, dest_channel) ==
    IF is_none(w.src) \/ is_none(w.dest) THEN [raised |-> TRUE, wire |-> w]
    ELSE [raised |-> FALSE,
          wire |-> [w EXCEPT !.links = Append(@, <<src_channel, dest_channel>>)]]

\* commit_links, "Resolve source" / "Resolve destination": an id string is
\* looked up in the registry, a component dict brings its own "id" key.
resolve_addressed(reg, objs, x) ==
    IF x.ref = 0
    THEN [raised |-> reg[x.id] = 0, ref |-> reg[x.id], id |-> x.id]
    ELSE [raised |-> FALSE, ref |-> x.ref, id |-> objs[x.ref]]

commit_each_raises_late(reg, rs, src, dest, persist, links) ==
    IF links = <<>> THEN [raised |-> FALSE, routes |-> rs]
    ELSE LET added == intraflow_add_route(reg, rs,
                          RouteDict(src.id, src.ref, Head(links)[1],
                                    dest.id, dest.ref, Head(links)[2], persist))
         IN  IF added.raised \/ Len(links) = 1 THEN added
             ELSE [raised |-> TRUE, routes |-> added.routes]

\* commit_links: the loop over the staged links.
RECURSIVE commit_each(_, _, _, _, _, _)
commit_each(reg, rs, src, dest, persist, links) ==
    IF links = <<>> THEN [raised |-> FALSE, routes |-> rs]
    ELSE LET added == intraflow_add_route(reg, rs,
                          RouteDict(src.id, src.ref, Head(links)[1],
                                    dest.id, dest.ref, Head(links)[2], persist))
         IN  IF added.raised THEN added
             ELSE commit_each(reg, added.routes, src, dest, persist, Tail(links))

commit_links_keeps_persist(reg, objs, rs, w) ==
    IF is_none(w.src) \/ is_none(w.dest) \/ w.links = <<>>
    THEN [raised |-> TRUE, routes |-> rs, wire |-> w]
    ELSE LET src == resolve_addressed(reg, objs, w.src)
             dest == resolve_addressed(reg, objs, w.dest)
         IN  IF src.raised \/ dest.raised
             THEN [raised |-> TRUE, routes |-> rs, wire |-> w]
             ELSE LET done == commit_each(reg, rs, src, dest, w.persist, w.links)
                  IN  IF done.raised
                      THEN [raised |-> TRUE, routes |-> done.routes, wire |-> w]
                      ELSE [raised |-> FALSE, routes |-> done.routes,
                            wire |-> [w EXCEPT !.links = <<>>]]

\* commit_links: [raised, routes, wire].
commit_links(reg, objs, rs, w) ==
    IF is_none(w.src) \/ is_none(w.dest) \/ w.links = <<>>
    THEN [raised |-> TRUE, routes |-> rs, wire |-> w]
    ELSE LET src == resolve_addressed(reg, objs, w.src)
             dest == resolve_addressed(reg, objs, w.dest)
         IN  IF src.raised \/ dest.raised
             THEN [raised |-> TRUE, routes |-> rs, wire |-> w]
             ELSE LET done == commit_each(reg, rs, src, dest, w.persist, w.links)
                  IN  IF done.raised
                      THEN [raised |-> TRUE, routes |-> done.routes, wire |-> w]
                      ELSE [raised |-> FALSE, routes |-> done.routes,
                            wire |-> [w EXCEPT !.links = <<>>, !.persist = FALSE]]

\* The record of a call: its name, what it returned, whether it raised, and
\* for remove_route whether it was called right after add_route(r) with the
\* endpoints and channels of r.
\* For commit_links, stale tells whether the console still held the persist
\* flag and a staged link of an earlier, failed session when it was addressed.
Op(name, ret, raised) ==
    [op |-> name, ret |-> ret, raised |-> raised, round_trip |-> FALSE,
     stale |-> FALSE]

NoOp == Op("", FALSE, FALSE)

\* Nothing is registered.
TableStart ==
    /\ objects = <<>>
    /\ comp_of = [id \in Ids |-> 0]
    /\ lastOp = NoOp

Created == 1..Len(objects)

\* What a caller can address: nothing, a component dict, or an id string.
Addressable ==
    {Endpoint(0, "")} \cup {Endpoint(o, "") : o \in Created}
        \cup {Endpoint(0, id) : id \in Ids}

TableFrame ==
    UNCHANGED <<always_active, inbox, outbox, pc, phase, idx, cycles, cycle, now,
                born, emitter, seed, preInbox, preOutbox, acts, lastObs, context, routerVars,
                hostVars,
                writeVars>>

\* declare_component(component_id)
DeclareComponent ==
    /\ \E id \in Ids :
         IF comp_of[id] # 0
         THEN /\ lastOp' = Op("declare_component", FALSE, TRUE)
              /\ UNCHANGED <<objects, comp_of, components>>
         ELSE /\ Len(objects) < MaxObjs
              /\ objects' = Append(objects, id)
              /\ comp_of' = [comp_of EXCEPT ![id] = Len(objects) + 1]
              /\ components' = Append(components, id)
              /\ lastOp' = Op("declare_component", FALSE, FALSE)
    /\ UNCHANGED routes
    /\ TableFrame

\* make_component()
MakeComponent ==
    /\ Len(objects) < MaxObjs
    /\ objects' = Append(objects, "")
    /\ lastOp' = Op("make_component", FALSE, FALSE)
    /\ UNCHANGED <<components, comp_of, routes>>
    /\ TableFrame

\* unregister_component(component_id)
UnregisterComponent ==
    /\ \E id \in Ids :
         /\ components' = SelectSeq(components, LAMBDA c : c # id)
         /\ comp_of' = [comp_of EXCEPT ![id] = 0]
         /\ routes' = IF comp_of[id] = 0 THEN routes
                      ELSE delist_component(objects, routes, comp_of[id])
         /\ lastOp' = Op("unregister_component", FALSE, FALSE)
    /\ UNCHANGED objects
    /\ TableFrame

\* delist_component(comp)
DelistComponent ==
    /\ \E comp \in Created :
         /\ routes' = delist_component(objects, routes, comp)
         /\ lastOp' = Op("delist_component", FALSE, FALSE)
    /\ UNCHANGED <<components, objects, comp_of>>
    /\ TableFrame

\* The channel pairs of the routes a host wires.
ChannelLinks == {<<"a", "b">>}

\* The route dicts callers hand to add_route.
RouteDicts ==
    {RouteDict(sid, s, l[1], did, d, l[2], pers) :
        sid \in Ids \cup {""}, s \in Created \cup {0},
        did \in Ids \cup {""}, d \in Created \cup {0},
        l \in ChannelLinks, pers \in BOOLEAN}

\* add_route(route)
AddRoute ==
    /\ \E route \in RouteDicts :
         LET res == intraflow_add_route(comp_of, routes, route)
         IN  /\ Len(res.routes) <= MaxRoutes
             /\ routes' = res.routes
             /\ lastOp' = Op("add_route", FALSE, res.raised)
    /\ UNCHANGED <<components, objects, comp_of>>
    /\ TableFrame

\* remove_route(src, src_channel, dest, dest_channel)
RemoveRoute ==
    /\ \E src \in Created, dest \in Created, sc \in Channels, dc \in Channels :
         LET res == intraflow_remove_route(routes, src, sc, dest, dc)
         IN  /\ routes' = res.routes
             /\ lastOp' = [Op("remove_route", res.ret, FALSE) EXCEPT
                              !.round_trip =
                                  /\ lastOp = Op("add_route", FALSE, FALSE)
                                  /\ route_matches(routes[Len(routes)],
                                                   src, sc, dest, dc)]
    /\ UNCHANGED <<components, objects, comp_of>>
    /\ TableFrame

\* clear_routes()
ClearRoutes ==
    /\ routes' = <<>>
    /\ lastOp' = Op("clear_routes", FALSE, FALSE)
    /\ UNCHANGED <<components, objects, comp_of>>
    /\ TableFrame

\* The channel pairs a host stages in the console.
WireLinks == {<<"a", "b">>, <<"b", "a">>}

\* The console as an earlier session left it: untouched, or with the persist
\* flag and a staged link that a failed commit_links did not clear.
StaleWire ==
    [src |-> Endpoint(0, "x"), dest |-> Endpoint(0, "y"), persist |-> TRUE,
     links |-> << <<"b", "b">> >>]

PriorWires == {NoWire, StaleWire}

\* The console up to commit_links: address_components(src, dest), persist_links()
\* if persist, then link_channels for every link.
RECURSIVE link_each(_, _)
link_each(w, links) ==
    IF links = <<>> THEN [raised |-> FALSE, wire |-> w]
    ELSE LET res == link_channels(w, Head(links)[1], Head(links)[2])
         IN  IF res.raised THEN res ELSE link_each(res.wire, Tail(links))

wiring(prior, src, dest, persist, links) ==
    LET addressed == address_dest(address_source(prior, src), dest)
    IN  link_each(IF persist THEN persist_links(addressed) ELSE addressed, links)

\* One wiring session of the host: the console calls and commit_links(), on a
\* console left as one of priors, staging one of link_seqs.
WireSessionWith(priors, link_seqs) ==
    /\ \E prior \in priors, src \in Addressable, dest \in Addressable,
          persist \in BOOLEAN, links \in link_seqs :
         LET staged == wiring(prior, src, dest, persist, links)
             res == commit_links(comp_of, objects, routes, staged.wire)
         IN  /\ Len(res.routes) <= MaxRoutes
             /\ routes' = IF staged.raised THEN routes ELSE res.routes
             /\ lastOp' = [Op("commit_links", FALSE, staged.raised \/ res.raised)
                              EXCEPT !.stale = (prior = StaleWire)]
    /\ UNCHANGED <<components, objects, comp_of>>
    /\ TableFrame

\* A session on an untouched console, for the channel pair of the other routes.
WireSession == WireSessionWith({NoWire}, SeqsUpTo(ChannelLinks, MaxLinks))

\* A session on any console, staging either channel pair in any order.
ConsoleSession == WireSessionWith(PriorWires, SeqsUpTo(WireLinks, MaxLinks))

\* ======================================================================
\* Patchboard Router (router.py)
\* ======================================================================
kOUTBOX == "/router/OUTBOX"

Folders == {"/src", "/dst1", "/dst2", kOUTBOX}

\* Paths as clients spell them; "/x/../src" and "/lnk" resolve elsewhere.
RawPaths == Folders \cup {"/x/../src", "/lnk"}

\* Path(p).resolve(): absolute, symlink-resolved form.
canonicalize_path(p) ==
    CASE p = "/x/../src" -> "/src"
      [] p = "/lnk"      -> "/dst1"
      [] OTHER           -> p

RouterChannels == {"data", "other"}

ZeroStats ==
    [seen |-> 0, delivered |-> 0, deleted |-> 0, skipped_unreadable |-> 0,
     skipped_missing_folder |-> 0, discarded_unrouted |-> 0]

\* A *.json file of a message folder; ok = whether it parses, decodes =
\* whether its bytes are valid UTF-8 (a file cut inside a multi-byte character
\* is not).
MsgFile(folder, name, ok, channel, signal, timestamp) ==
    [folder |-> folder, name |-> name, ok |-> ok, decodes |-> TRUE,
     channel |-> channel, signal |-> signal, timestamp |-> timestamp]

\* read_json_file: json.load raises UnicodeDecodeError, which the except
\* clause (JSONDecodeError, FileNotFoundError, OSError) does not catch.
read_json_file_raises(f) == ~f.decodes

\* write_message(folder, channel, {}): a lifecycle message of the router itself.
write_message(fs, folder, name, channel) ==
    fs \cup {MsgFile(folder, name, TRUE, channel, "{}", 0)}

\* ---------------------------------------------------------------- events log
\* One line of events.jsonl. parses = FALSE: a line json.loads rejects.
EventLine(event_type, data) ==
    [parses |-> TRUE, decodes |-> TRUE, event |-> event_type, data |-> data]

NoData == [source_folder |-> "", source_channel |-> "",
           destination_channel |-> "", destination_folder |-> ""]

GarbageLine == [parses |-> FALSE, decodes |-> TRUE, event |-> "", data |-> NoData]

\* A last line cut inside a multi-byte character (append_jsonl writes paths
\* with ensure_ascii=False): its bytes are not valid UTF-8.
CutLine == [GarbageLine EXCEPT !.decodes = FALSE]

\* log_event: append one line to events.jsonl.
log_event(log, event_type, data) == Append(log, EventLine(event_type, data))

RemoveFirst(seq, x) ==
    LET i == CHOOSE k \in 1..Len(seq) :
                 seq[k] = x /\ \A m \in 1..(k - 1) : seq[m] # x
    IN  SubSeq(seq, 1, i - 1) \o SubSeq(seq, i + 1, Len(seq))

replay_line_no_dedup(table, line) ==
    IF ~line.parses THEN table
    ELSE IF line.event = "route_added" THEN Append(table, line.data)
    ELSE IF line.event = "route_removed"
         THEN IF line.data \in Range(table) THEN RemoveFirst(table, line.data) ELSE table
    ELSE table

\* One iteration of the replay loop.
replay_line(table, line) ==
    IF ~line.parses THEN table
    ELSE IF line.event = "route_added"
         THEN LET route == [source_folder |-> line.data.source_folder,
                            source_channel |-> line.data.source_channel,
                            destination_channel |-> line.data.destination_channel,
                            destination_folder |-> line.data.destination_folder]
              IN  IF route \notin Range(table) THEN Append(table, route) ELSE table
    ELSE IF line.event = "route_removed"
         THEN LET route == [source_folder |-> line.data.source_folder,
                            source_channel |-> line.data.source_channel,
                            destination_channel |-> line.data.destination_channel,
                            destination_folder |-> line.data.destination_folder]
              IN  IF route \in Range(table) THEN RemoveFirst(table, route) ELSE table
    ELSE table

RECURSIVE replay_from(_, _)
replay_from(table, log) ==
    IF log = <<>> THEN table
    ELSE replay_from(replay_line(table, Head(log)), Tail(log))

\* replay_events_log_and_rebuild_routing_table: "for line in f" raises
\* UnicodeDecodeError, which nothing catches.
replay_raises(log) == \E i \in 1..Len(log) : ~log[i].decodes

\* replay_events_log_and_rebuild_routing_table: g["routes"] after the replay.
replay_events_log_and_rebuild_routing_table(log) == replay_from(<<>>, log)

\* ------------------------------------------------------------ routing table
_make_route_dict_as_given(src_folder, src_channel, dest_channel, dest_folder) ==
    [source_folder |-> src_folder,
     source_channel |-> src_channel,
     destination_channel |-> dest_channel,
     destination_folder |-> dest_folder]

_make_route_dict(src_folder, src_channel, dest_channel, dest_folder) ==
    [source_folder |-> canonicalize_path(src_folder),
     source_channel |-> src_channel,
     destination_channel |-> dest_channel,
     destination_folder |-> canonicalize_path(dest_folder)]

add_route_no_duplicate_check(t, src_folder, src_channel, dest_channel, dest_folder) ==
    LET route == _make_route_dict(src_folder, src_channel, dest_channel, dest_folder)
    IN  [t EXCEPT !.routes = Append(@, route),
                  !.events = log_event(@, "route_added", route),
                  !.routes_dirty = TRUE, !.state_dirty = TRUE]

\* add_route on t = [routes, events, routes_dirty, state_dirty].
add_route(t, src_folder, src_channel, dest_channel, dest_folder) ==
    LET route == _make_route_dict(src_folder, src_channel, dest_channel, dest_folder)
    IN  IF route \in Range(t.routes) THEN t
        ELSE [t EXCEPT !.routes = Append(@, route),
                       !.events = log_event(@, "route_added", route),
                       !.routes_dirty = TRUE, !.state_dirty = TRUE]

\* add_route's return value: True if added, False if duplicate.
add_route_returns(t, src_folder, src_channel, dest_channel, dest_folder) ==
    _make_route_dict(src_folder, src_channel, dest_channel, dest_folder)
        \notin Range(t.routes)

\* remove_route's return value: True if removed, False if not found.
remove_route_returns(t, src_folder, src_channel, dest_channel, dest_folder) ==
    _make_route_dict(src_folder, src_channel, dest_channel, dest_folder)
        \in Range(t.routes)

remove_route_without_event(t, src_folder, src_channel, dest_channel, dest_folder) ==
    LET route == _make_route_dict(src_folder, src_channel, dest_channel, dest_folder)
    IN  IF route \notin Range(t.routes) THEN t
        ELSE [t EXCEPT !.routes = RemoveFirst(@, route),
                       !.routes_dirty = TRUE, !.state_dirty = TRUE]

\* remove_route on t = [routes, events, routes_dirty, state_dirty].
remove_route(t, src_folder, src_channel, dest_channel, dest_folder) ==
    LET route == _make_route_dict(src_folder, src_channel, dest_channel, dest_folder)
    IN  IF route \notin Range(t.routes) THEN t
        ELSE [t EXCEPT !.routes = RemoveFirst(@, route),
                       !.events = log_event(@, "route_removed", route),
                       !.routes_dirty = TRUE, !.state_dirty = TRUE]

routes_for_source_no_wildcard(rs, source_folder, channel) ==
    SelectSeq(rs, LAMBDA route :
        /\ route.source_folder = canonicalize_path(source_folder)
        /\ route.source_channel = channel)

\* routes_for_source: the matching routes, in table order.
routes_for_source(rs, source_folder, channel) ==
    SelectSeq(rs, LAMBDA route :
        /\ route.source_folder = canonicalize_path(source_folder)
        /\ (route.source_channel = channel \/ route.source_channel = "*"))

get_all_source_folders(rs) == {rs[i].source_folder : i \in 1..Len(rs)}

\* ------------------------------------------------- delivery engine (la-la)
\* folder.glob("*.json"): the files of a folder, here in name order.
RECURSIVE SortByName(_)
SortByName(S) ==
    IF S = {} THEN <<>>
    ELSE LET f == CHOOSE x \in S : \A y \in S : x.name <= y.name
         IN  <<f>> \o SortByName(S \ {f})

glob_json(fs, folder) == SortByName({f \in fs : f.folder = folder})

FolderOrder == <<"/src", "/dst1", "/dst2", kOUTBOX>>

source_folders_of_pass_ignores_draining(rs, draining) ==
    LET all == get_all_source_folders(rs)
        lst == SelectSeq(FolderOrder, LAMBDA f : f \in all)
    IN  IF kOUTBOX \in all THEN lst ELSE Append(lst, kOUTBOX)

\* do_delivery_pass: the source folders of a pass.
source_folders_of_pass(rs, draining) ==
    IF draining THEN <<kOUTBOX>>
    ELSE LET all == get_all_source_folders(rs)
             lst == SelectSeq(FolderOrder, LAMBDA f : f \in all)
         IN  IF kOUTBOX \in all THEN lst ELSE Append(lst, kOUTBOX)

CopyOp_keeps_source_channel(f, route) ==
    [src |-> f.name, msg |-> f, dest_folder |-> route.destination_folder,
     dest_channel |-> f.channel]

CopyOp(f, route) ==
    [src |-> f.name, msg |-> f, dest_folder |-> route.destination_folder,
     dest_channel |-> route.destination_channel]

plan_file_counts_every_unrouted(rs, discard, acc, folder, f) ==
    IF ~f.ok
    THEN [acc EXCEPT !.stats.skipped_unreadable = @ + 1]
    ELSE LET destinations == routes_for_source(rs, folder, f.channel)
         IN  IF destinations = <<>>
             THEN IF discard
                  THEN [acc EXCEPT !.deletes = Append(@, f.name),
                                   !.stats.discarded_unrouted = @ + 1]
                  ELSE [acc EXCEPT !.stats.discarded_unrouted = @ + 1]
             ELSE [acc EXCEPT
                      !.copies = @ \o [i \in 1..Len(destinations) |->
                                          CopyOp(f, destinations[i])],
                      !.deletes = Append(@, f.name),
                      !.stats.seen = @ + 1]

\* _plan_deliveries: the body of the loop over the files of one folder.
plan_file(rs, discard, acc, folder, f) ==
    IF ~f.ok
    THEN [acc EXCEPT !.stats.skipped_unreadable = @ + 1]
    ELSE LET destinations == routes_for_source(rs, folder, f.channel)
         IN  IF destinations = <<>>
             THEN IF discard
                  THEN [acc EXCEPT !.deletes = Append(@, f.name),
                                   !.stats.discarded_unrouted = @ + 1]
                  ELSE acc
             ELSE [acc EXCEPT
                      !.copies = @ \o [i \in 1..Len(destinations) |->
                                          CopyOp(f, destinations[i])],
                      !.deletes = Append(@, f.name),
                      !.stats.seen = @ + 1]

RECURSIVE plan_files(_, _, _, _, _)
plan_files(rs, discard, acc, folder, fseq) ==
    IF fseq = <<>> THEN acc
    ELSE plan_files(rs, discard, plan_file(rs, discard, acc, folder, Head(fseq)),
                    folder, Tail(fseq))

RECURSIVE plan_folders(_, _, _, _, _, _)
plan_folders(rs, fs, ds, discard, acc, folders) ==
    IF folders = <<>> THEN acc
    ELSE plan_folders(rs, fs, ds, discard,
             IF Head(folders) \notin ds THEN acc
             ELSE plan_files(rs, discard, acc, Head(folders),
                             glob_json(fs, Head(folders))),
             Tail(folders))

\* _plan_deliveries: (copies, deletes) and the counters it bumps.
_plan_deliveries(rs, fs, ds, discard, st, source_folders) ==
    plan_folders(rs, fs, ds, discard,
                 [copies |-> <<>>, deletes |-> <<>>, stats |-> st], source_folders)

RECURSIVE _execute_copies_creates_folder(_, _, _, _, _)
_execute_copies_creates_folder(copies, i, ds, failing, w) ==
    IF i > Len(copies) THEN w
    ELSE LET c == copies[i]
         IN  _execute_copies_creates_folder(copies, i + 1, ds, failing,
                 IF i \in failing THEN w
                 ELSE [w EXCEPT
                          !.files = @ \cup {MsgFile(c.dest_folder, nextName + i - 1,
                                                    TRUE, c.dest_channel,
                                                    c.msg.signal, c.msg.timestamp)},
                          !.successful = Append(@, c.src),
                          !.ok = @ \cup {i},
                          !.stats.delivered = @ + 1])

\* _execute_copies from copy i on; failing = the copies whose write raises
\* OSError. w = [files, stats, successful, ok]. The i-th copy of a pass gets
\* the i-th fresh file name.
RECURSIVE _execute_copies(_, _, _, _, _)
_execute_copies(copies, i, ds, failing, w) ==
    IF i > Len(copies) THEN w
    ELSE LET c == copies[i]
         IN  _execute_copies(copies, i + 1, ds, failing,
                 IF c.dest_folder \notin ds
                 THEN [w EXCEPT !.stats.skipped_missing_folder = @ + 1]
                 ELSE IF i \in failing THEN w
                 ELSE [w EXCEPT
                          !.files = @ \cup {MsgFile(c.dest_folder, nextName + i - 1,
                                                    TRUE, c.dest_channel,
                                                    c.msg.signal, c.msg.timestamp)},
                          !.successful = Append(@, c.src),
                          !.ok = @ \cup {i},
                          !.stats.delivered = @ + 1])

Count(seq, x) == Cardinality({i \in 1..Len(seq) : seq[i] = x})

should_delete_after_any_success(src_path, successful, copies) ==
    \/ src_path \notin {copies[i].src : i \in 1..Len(copies)}
    \/ src_path \in Range(successful)

\* _execute_deletes: whether the source file src_path is unlinked.
should_delete(src_path, successful, copies) ==
    LET sources_with_copies == {copies[i].src : i \in 1..Len(copies)}
        planned_count == Cardinality({i \in 1..Len(copies) : copies[i].src = src_path})
        actual_count == Count(successful, src_path)
    IN  IF src_path \notin sources_with_copies THEN TRUE
        ELSE IF src_path \in Range(successful) THEN actual_count >= planned_count
        ELSE FALSE

\* _execute_deletes. w = [files, stats, ...].
RECURSIVE _execute_deletes(_, _, _, _)
_execute_deletes(deletes, successful, copies, w) ==
    IF deletes = <<>> THEN w
    ELSE _execute_deletes(Tail(deletes), successful, copies,
             IF should_delete(Head(deletes), successful, copies)
             THEN [w EXCEPT !.files = {f \in @ : f.name # Head(deletes)},
                            !.stats.deleted = @ + 1]
             ELSE w)

\* has_deliverable_messages_in_router_outbox
has_deliverable_messages_in_router_outbox(rs, fs, ds) ==
    /\ kOUTBOX \in ds
    /\ \E f \in fs : /\ f.folder = kOUTBOX
                     /\ f.ok
                     /\ routes_for_source(rs, kOUTBOX, f.channel) # <<>>

\* do_delivery_pass: _plan_deliveries reads a file that makes read_json_file
\* raise, in one of the source folders of the pass.
pass_raises(rs, fs, ds, draining) ==
    \E f \in fs :
        /\ f.folder \in Range(source_folders_of_pass(rs, draining)) \cap ds
        /\ read_json_file_raises(f)

NoPass == [draining |-> FALSE, routes |-> <<>>, dirs |-> {}, pre |-> {}, post |-> {},
           copies |-> <<>>, deletes |-> <<>>, ok |-> {}, stats0 |-> ZeroStats]

do_delivery_pass_keeps_tick(draining, failing) ==
    /\ ~pass_raises(rroutes, files, dirs, draining)
    /\ \E plan \in {_plan_deliveries(rroutes, files, dirs, discard_unrouted, stats,
                                      source_folders_of_pass(rroutes, draining))} :
       \E copied \in {_execute_copies(plan.copies, 1, dirs, failing,
                           [files |-> files, stats |-> plan.stats,
                            successful |-> <<>>, ok |-> {}])} :
       \E done \in {_execute_deletes(plan.deletes, copied.successful, plan.copies,
                                     copied)} :
           /\ files' = done.files
           /\ stats' = done.stats
           /\ nextName' = nextName + Len(plan.copies)
           /\ tick' = tick
           /\ state_dirty' = TRUE
           /\ fails' = fails + Cardinality(failing)
           /\ lastPass' = [draining |-> draining, routes |-> rroutes, dirs |-> dirs,
                           pre |-> files, post |-> done.files, copies |-> plan.copies,
                           deletes |-> plan.deletes, ok |-> done.ok, stats0 |-> stats]

\* do_delivery_pass(flags), with `failing` the copies whose write raises OSError.
do_delivery_pass(draining, failing) ==
    /\ ~pass_raises(rroutes, files, dirs, draining)
    /\ \E plan \in {_plan_deliveries(rroutes, files, dirs, discard_unrouted, stats,
                                      source_folders_of_pass(rroutes, draining))} :
       \E copied \in {_execute_copies(plan.copies, 1, dirs, failing,
                           [files |-> files, stats |-> plan.stats,
                            successful |-> <<>>, ok |-> {}])} :
       \E done \in {_execute_deletes(plan.deletes, copied.successful, plan.copies,
                                     copied)} :
           /\ files' = done.files
           /\ stats' = done.stats
           /\ nextName' = nextName + Len(plan.copies)
           /\ tick' = tick + 1
           /\ state_dirty' = TRUE
           /\ fails' = fails + Cardinality(failing)
           /\ lastPass' = [draining |-> draining, routes |-> rroutes, dirs |-> dirs,
                           pre |-> files, post |-> done.files, copies |-> plan.copies,
                           deletes |-> plan.deletes, ok |-> done.ok, stats0 |-> stats]

\* The writes of a pass that can raise OSError: copies into existing folders.
Writes(draining) ==
    LET plan == _plan_deliveries(rroutes, files, dirs, discard_unrouted, stats,
                                 source_folders_of_pass(rroutes, draining))
    IN  {i \in 1..Len(plan.copies) : plan.copies[i].dest_folder \in dirs}

\* The write errors one pass can meet, within MaxFail for the behaviour.
Failing(draining) ==
    {F \in SUBSET Writes(draining) : fails + Cardinality(F) <= MaxFail}

\* --------------------------------------------------------- control inputs
ControlSignal(sf, sc, dc, df, ack) ==
    [source_folder |-> sf, source_channel |-> sc, destination_channel |-> dc,
     destination_folder |-> df, ack_path |-> ack]

\* write_acknowledgement: the file at ack_path is replaced.
write_acknowledgement(as, ack_path, channel) ==
    {a \in as : a.path # ack_path}
        \cup {[path |-> ack_path,
               channel |-> "filetalk-patchboard-router-acknowledgement",
               signal |-> channel]}

HasAllFields(signal) ==
    /\ signal.source_folder # ""
    /\ signal.source_channel # ""
    /\ signal.destination_channel # ""
    /\ signal.destination_folder # ""

handle_link_message_acks_additions_only(t, signal) ==
    IF ~HasAllFields(signal) THEN t
    ELSE LET t2 == add_route(t, signal.source_folder, signal.source_channel,
                             signal.destination_channel, signal.destination_folder)
         IN  IF signal.ack_path # "" /\ t2.routes # t.routes
             THEN [t2 EXCEPT !.acks = write_acknowledgement(@, signal.ack_path, "link")]
             ELSE t2

\* t = [routes, events, routes_dirty, state_dirty, acks, quit_requested, inbox]
handle_link_message(t, signal) ==
    IF ~HasAllFields(signal) THEN t
    ELSE LET t2 == add_route(t, signal.source_folder, signal.source_channel,
                             signal.destination_channel, signal.destination_folder)
         IN  IF signal.ack_path # ""
             THEN [t2 EXCEPT !.acks = write_acknowledgement(@, signal.ack_path, "link")]
             ELSE t2

handle_unlink_message(t, signal) ==
    IF ~HasAllFields(signal) THEN t
    ELSE LET t2 == remove_route(t, signal.source_folder, signal.source_channel,
                                signal.destination_channel, signal.destination_folder)
         IN  IF signal.ack_path # ""
             THEN [t2 EXCEPT !.acks = write_acknowledgement(@, signal.ack_path, "unlink")]
             ELSE t2

handle_quit_message(t, signal) == [t EXCEPT !.quit_requested = TRUE]

\* process_control_inputs: the loop over the files of router INBOX, in the
\* order the directory listing yields them.
RECURSIVE process_control_inputs(_, _)
process_control_inputs(t, order) ==
    IF order = <<>> THEN t
    ELSE LET f == Head(order)
             handled == IF f.channel = "link" THEN handle_link_message(t, f.signal)
                        ELSE IF f.channel = "unlink"
                             THEN handle_unlink_message(t, f.signal)
                        ELSE IF f.channel = "quit" THEN handle_quit_message(t, f.signal)
                        ELSE t
         IN  process_control_inputs(
                 IF ~f.ok THEN t
                 ELSE [handled EXCEPT !.inbox = @ \ {f}],
                 Tail(order))

Orders(S) ==
    {o \in [1..Cardinality(S) -> S] : \A i, j \in 1..Cardinality(S) : o[i] = o[j] => i = j}

\* ---------------------------------------------------------------- inputs
R1 == [source_folder |-> "/src", source_channel |-> "data",
       destination_channel |-> "in", destination_folder |-> "/dst1"]
R2 == [source_folder |-> "/src", source_channel |-> "*",
       destination_channel |-> "any", destination_folder |-> "/dst2"]
R3 == [source_folder |-> kOUTBOX, source_channel |-> "shutdown",
       destination_channel |-> "router-shutdown", destination_folder |-> "/dst1"]

\* events.jsonl as earlier runs of the router (or an editor) left it.
PriorLogs ==
    { <<>>,
      <<EventLine("startup", NoData), EventLine("route_added", R1),
        EventLine("route_added", R2), EventLine("route_added", R3),
        EventLine("shutdown", NoData), GarbageLine>>,
      <<EventLine("route_added", R1), EventLine("route_added", R1),
        EventLine("route_removed", R2), EventLine("route_added", R3),
        EventLine("route_removed", R1), EventLine("route_renamed", R2)>> }

\* Control messages clients write: cmd_link / cmd_unlink / cmd_quit, and
\* hand-written ones (uncanonical paths, a missing field).
ControlMsgs ==
    { [channel |-> "link", signal |-> ControlSignal("/x/../src", "data", "in", "/dst1", "")],
      [channel |-> "link", signal |-> ControlSignal("/src", "*", "any", "/dst2", "/ack")],
      [channel |-> "unlink", signal |-> ControlSignal("/src", "data", "in", "/lnk", "")],
      [channel |-> "link", signal |-> ControlSignal("/src", "", "in", "/dst1", "/ack")],
      [channel |-> "quit", signal |-> ControlSignal("", "", "", "", "")] }

\* cmd_run is entered with one of the logs and one of the folder sets.
RouterStartWith(logs, folder_sets) ==
    /\ rpc = "boot"
    /\ mode = "normal"
    /\ quit_requested = FALSE
    /\ tick = 0
    /\ rroutes = <<>>
    /\ routes_dirty = FALSE
    /\ state_dirty = FALSE
    /\ stats = ZeroStats
    /\ discard_unrouted \in BOOLEAN
    /\ events \in logs
    /\ dirs \in folder_sets
    /\ files = {}
    /\ ctl_inbox = {}
    /\ acks = {}
    /\ routes_json = <<>>
    /\ status_json = [tick |-> 0, stats |-> ZeroStats]
    /\ nextName = 1
    /\ dropped = 0
    /\ sent = 0
    /\ fails = 0
    /\ lastPass = NoPass

RouterStart == RouterStartWith(PriorLogs, {Folders \ {kOUTBOX}})

\* events.jsonl of a router that was killed while appending a route_added
\* line for a folder with a non-ASCII name.
CutLog == <<EventLine("route_added", R1), CutLine>>

ReplayStart == RouterStartWith(PriorLogs \cup {CutLog}, {Folders \ {kOUTBOX}})

\* The router starts while the folder of the shutdown subscriber (R3) may not
\* exist.
ShutdownStart ==
    RouterStartWith(PriorLogs, {Folders \ {kOUTBOX}, {"/src", "/dst2"}})

\* The router is not running.
RouterOff ==
    /\ rpc = "off"
    /\ mode = "normal"
    /\ quit_requested = FALSE
    /\ tick = 0
    /\ rroutes = <<>>
    /\ routes_dirty = FALSE
    /\ state_dirty = FALSE
    /\ stats = ZeroStats
    /\ discard_unrouted = TRUE
    /\ events = <<>>
    /\ dirs = {}
    /\ files = {}
    /\ ctl_inbox = {}
    /\ acks = {}
    /\ routes_json = <<>>
    /\ status_json = [tick |-> 0, stats |-> ZeroStats]
    /\ nextName = 1
    /\ dropped = 0
    /\ sent = 0
    /\ fails = 0
    /\ lastPass = NoPass

\* No IntraFlow component exists.
FlowOff ==
    /\ components = <<>>
    /\ always_active = [c \in Refs |-> FALSE]
    /\ routes = <<>>
    /\ inbox = EmptyBoxes
    /\ outbox = EmptyBoxes
    /\ pc = "off"
    /\ phase = 1
    /\ idx = 1
    /\ cycles = 0
    /\ cycle = 0
    /\ now = 0
    /\ born = <<>>
    /\ emitter = <<>>
    /\ seed = EmptyBoxes
    /\ preInbox = EmptyBoxes
    /\ preOutbox = EmptyBoxes
    /\ acts = [c \in Refs |-> 0]
    /\ lastObs = [comp |-> "", msg |-> NoMsg, cycle |-> 0]
    /\ context = NoContext

\* No adapter is populated; no payload object was mutated.
HostOff ==
    /\ adapter_kind = [c \in Refs |-> ""]
    /\ store = EmptyBoxes
    /\ payload = [s \in Signals |-> 0]

\* ----------------------------------------------------------- router actions
\* cmd_run up to the initial pass: initialize_filesystem_and_paths, replay,
\* emit_startup_message_and_event.
Boot ==
    /\ rpc = "boot"
    /\ ~replay_raises(events)
    /\ dirs' = dirs \cup {kOUTBOX}
    /\ rroutes' = replay_events_log_and_rebuild_routing_table(events)
    /\ events' = log_event(events, "startup", NoData)
    /\ files' = write_message(files, kOUTBOX, nextName, "startup")
    /\ nextName' = nextName + 1
    /\ rpc' = "initpass"
    /\ UNCHANGED <<mode, quit_requested, tick, routes_dirty, state_dirty, stats,
                   discard_unrouted, ctl_inbox, acks, routes_json, status_json,
                   dropped, sent, lastPass, fails>>
    /\ UNCHANGED <<flowVars, hostVars, tableVars, writeVars>>

publish_status == status_json' = [tick |-> tick, stats |-> stats]

publish_routes == routes_json' = rroutes

\* cmd_run: the initial delivery pass.
InitialPass ==
    /\ rpc = "initpass"
    /\ \E failing \in Failing(FALSE) : do_delivery_pass(FALSE, failing)
    /\ rpc' = "initpublish"
    /\ UNCHANGED <<mode, quit_requested, rroutes, routes_dirty, discard_unrouted,
                   events, dirs, ctl_inbox, acks, routes_json, status_json,
                   dropped, sent>>
    /\ UNCHANGED <<flowVars, hostVars, tableVars, writeVars>>

\* replay_events_log_and_rebuild_routing_table raises out of cmd_run: the
\* router does not start.
BootCrash ==
    /\ rpc = "boot"
    /\ replay_raises(events)
    /\ rpc' = "crashed"
    /\ UNCHANGED <<mode, quit_requested, tick, rroutes, routes_dirty, state_dirty,
                   stats, discard_unrouted, events, dirs, files, ctl_inbox, acks,
                   routes_json, status_json, nextName, dropped, sent, lastPass, fails>>
    /\ UNCHANGED <<flowVars, hostVars, tableVars, writeVars>>

\* do_delivery_pass raises out of cmd_run (the initial pass, or a pass of
\* run_main_loop; cmd_run catches KeyboardInterrupt only): the process ends
\* with a traceback, without draining and without publishing.
PassCrash ==
    /\ \/ rpc = "initpass"
       \/ rpc = "loop" /\ ~quit_requested
    /\ pass_raises(rroutes, files, dirs, FALSE)
    /\ rpc' = "crashed"
    /\ UNCHANGED <<mode, quit_requested, tick, rroutes, routes_dirty, state_dirty,
                   stats, discard_unrouted, events, dirs, files, ctl_inbox, acks,
                   routes_json, status_json, nextName, dropped, sent, lastPass, fails>>
    /\ UNCHANGED <<flowVars, hostVars, tableVars, writeVars>>

\* cmd_run: publish_status(); publish_routes().
InitialPublish ==
    /\ rpc = "initpublish"
    /\ publish_status
    /\ publish_routes
    /\ state_dirty' = FALSE
    /\ routes_dirty' = FALSE
    /\ rpc' = "loop"
    /\ UNCHANGED <<mode, quit_requested, tick, rroutes, stats, discard_unrouted,
                   events, dirs, files, ctl_inbox, acks, nextName, dropped, sent,
                   lastPass, fails>>
    /\ UNCHANGED <<flowVars, hostVars, tableVars, writeVars>>

TickPass_then_publish ==
    /\ rpc = "loop"
    /\ ~quit_requested
    /\ tick < MaxTick
    /\ \E failing \in Failing(FALSE) : do_delivery_pass(FALSE, failing)
    /\ rpc' = "publish"
    /\ UNCHANGED <<mode, quit_requested, rroutes, routes_dirty, discard_unrouted,
                   events, dirs, ctl_inbox, acks, routes_json, status_json,
                   dropped, sent>>
    /\ UNCHANGED <<flowVars, hostVars, tableVars, writeVars>>

\* run_main_loop: the loop test and do_delivery_pass().
TickPass ==
    /\ rpc = "loop"
    /\ ~quit_requested
    /\ tick < MaxTick
    /\ \E failing \in Failing(FALSE) : do_delivery_pass(FALSE, failing)
    /\ rpc' = "control"
    /\ UNCHANGED <<mode, quit_requested, rroutes, routes_dirty, discard_unrouted,
                   events, dirs, ctl_inbox, acks, routes_json, status_json,
                   dropped, sent>>
    /\ UNCHANGED <<flowVars, hostVars, tableVars, writeVars>>

\* run_main_loop: process_control_inputs().
ProcessControlInputs ==
    /\ rpc = "control"
    /\ \E order \in Orders(ctl_inbox) :
         LET t == process_control_inputs(
                      [routes |-> rroutes, events |-> events,
                       routes_dirty |-> routes_dirty, state_dirty |-> state_dirty,
                       acks |-> acks, quit_requested |-> quit_requested,
                       inbox |-> ctl_inbox], order)
         IN  /\ rroutes' = t.routes
             /\ events' = t.events
             /\ routes_dirty' = t.routes_dirty
             /\ state_dirty' = t.state_dirty
             /\ acks' = t.acks
             /\ quit_requested' = t.quit_requested
             /\ ctl_inbox' = t.inbox
    /\ rpc' = "publish"
    /\ UNCHANGED <<mode, tick, stats, discard_unrouted, dirs, files, routes_json,
                   status_json, nextName, dropped, sent, lastPass, fails>>
    /\ UNCHANGED <<flowVars, hostVars, tableVars, writeVars>>

\* run_main_loop: publish_state_if_dirty(), then the sleep.
PublishStateIfDirty ==
    /\ rpc = "publish"
    /\ IF routes_dirty
       THEN /\ publish_routes
            /\ files' = write_message(files, kOUTBOX, nextName, "notice")
            /\ nextName' = nextName + 1
       ELSE UNCHANGED <<routes_json, files, nextName>>
    /\ IF state_dirty THEN publish_status ELSE UNCHANGED status_json
    /\ routes_dirty' = FALSE
    /\ state_dirty' = FALSE
    /\ rpc' = "loop"
    /\ UNCHANGED <<mode, quit_requested, tick, rroutes, stats, discard_unrouted,
                   events, dirs, ctl_inbox, acks, dropped, sent, lastPass, fails>>
    /\ UNCHANGED <<flowVars, hostVars, tableVars, writeVars>>

\* cmd_run: KeyboardInterrupt out of run_main_loop.
Interrupt ==
    /\ rpc \in {"loop", "control", "publish"}
    /\ ~quit_requested
    /\ quit_requested' = TRUE
    /\ rpc' = "loop"
    /\ UNCHANGED <<mode, tick, rroutes, routes_dirty, state_dirty, stats,
                   discard_unrouted, events, dirs, files, ctl_inbox, acks,
                   routes_json, status_json, nextName, dropped, sent, lastPass, fails>>
    /\ UNCHANGED <<flowVars, hostVars, tableVars, writeVars>>

EnterDraining_keeps_serving ==
    /\ rpc = "loop"
    /\ quit_requested
    /\ mode' = "draining"
    /\ events' = log_event(events, "shutdown", NoData)
    /\ files' = write_message(files, kOUTBOX, nextName, "shutdown")
    /\ nextName' = nextName + 1
    /\ rpc' = "control"
    /\ UNCHANGED <<quit_requested, tick, rroutes, routes_dirty, state_dirty, stats,
                   discard_unrouted, dirs, ctl_inbox, acks, routes_json,
                   status_json, dropped, sent, lastPass, fails>>
    /\ UNCHANGED <<flowVars, hostVars, tableVars, writeVars>>

\* enter_draining_mode_and_drain, up to the drain loop.
EnterDraining ==
    /\ rpc = "loop"
    /\ quit_requested
    /\ mode' = "draining"
    /\ events' = log_event(events, "shutdown", NoData)
    /\ files' = write_message(files, kOUTBOX, nextName, "shutdown")
    /\ nextName' = nextName + 1
    /\ rpc' = "drain"
    /\ UNCHANGED <<quit_requested, tick, rroutes, routes_dirty, state_dirty, stats,
                   discard_unrouted, dirs, ctl_inbox, acks, routes_json,
                   status_json, dropped, sent, lastPass, fails>>
    /\ UNCHANGED <<flowVars, hostVars, tableVars, writeVars>>

\* enter_draining_mode_and_drain: one iteration of the drain loop.
DrainPass ==
    /\ rpc = "drain"
    /\ has_deliverable_messages_in_router_outbox(rroutes, files, dirs)
    /\ tick < MaxTick
    /\ \E failing \in Failing(TRUE) : do_delivery_pass(TRUE, failing)
    /\ UNCHANGED <<rpc, mode, quit_requested, rroutes, routes_dirty,
                   discard_unrouted, events, dirs, ctl_inbox, acks, routes_json,
                   status_json, dropped, sent>>
    /\ UNCHANGED <<flowVars, hostVars, tableVars, writeVars>>

\* cmd_run: the drain loop is over; final publish_status(); publish_routes().
DrainDone ==
    /\ rpc = "drain"
    /\ ~has_deliverable_messages_in_router_outbox(rroutes, files, dirs)
    /\ publish_status
    /\ publish_routes
    /\ state_dirty' = FALSE
    /\ routes_dirty' = FALSE
    /\ rpc' = "stopped"
    /\ UNCHANGED <<mode, quit_requested, tick, rroutes, stats, discard_unrouted,
                   events, dirs, files, ctl_inbox, acks, nextName, dropped, sent,
                   lastPass, fails>>
    /\ UNCHANGED <<flowVars, hostVars, tableVars, writeVars>>

\* ------------------------------------------------------ the router's world
\* The router reads the message folders only in a delivery pass and router INBOX
\* only in process_control_inputs, so what producers and clients do
\* between two such reads is taken just before the read that can see it.
BeforePass == rpc \in {"initpass", "loop", "drain"}

\* Within MaxTick there is room for every write error still to come and for
\* one pass after them.
PassesRemain == tick + (MaxFail - fails) < MaxTick

\* File names: unique per writer (msg_<time>_<random>.json).
ProducerName(k) == 1000 + k

ClientName(k) == 2000 + k

\* An external producer writes a message file into a source folder; ok = FALSE
\* while the file is still being written.
ProducerWrite ==
    /\ BeforePass
    /\ dropped < MaxFiles
    /\ PassesRemain
    /\ \E channel \in RouterChannels, ok \in BOOLEAN :
         files' = files \cup {MsgFile("/src", ProducerName(dropped + 1), ok, channel,
                                      "payload", dropped + 1)}
    /\ dropped' = dropped + 1
    /\ UNCHANGED <<rpc, mode, quit_requested, tick, rroutes, routes_dirty,
                   state_dirty, stats, discard_unrouted, events, dirs, ctl_inbox,
                   acks, routes_json, status_json, nextName, sent, lastPass, fails>>
    /\ UNCHANGED <<flowVars, hostVars, tableVars, writeVars>>

\* An external producer is writing a message file with non-ASCII text into a
\* source folder: the bytes on disk end inside a multi-byte character.
ProducerWriteCut ==
    /\ BeforePass
    /\ dropped < MaxFiles
    /\ PassesRemain
    /\ \E channel \in RouterChannels :
         files' = files \cup {[MsgFile("/src", ProducerName(dropped + 1), FALSE,
                                       channel, "payload", dropped + 1)
                                   EXCEPT !.decodes = FALSE]}
    /\ dropped' = dropped + 1
    /\ UNCHANGED <<rpc, mode, quit_requested, tick, rroutes, routes_dirty,
                   state_dirty, stats, discard_unrouted, events, dirs, ctl_inbox,
                   acks, routes_json, status_json, nextName, sent, lastPass, fails>>
    /\ UNCHANGED <<flowVars, hostVars, tableVars, writeVars>>

\* The producer completes a file it was writing.
ProducerFinish ==
    /\ BeforePass
    /\ PassesRemain
    /\ \E f \in files :
         /\ ~f.ok
         /\ files' = (files \ {f}) \cup {[f EXCEPT !.ok = TRUE, !.decodes = TRUE]}
    /\ UNCHANGED <<rpc, mode, quit_requested, tick, rroutes, routes_dirty,
                   state_dirty, stats, discard_unrouted, events, dirs, ctl_inbox,
                   acks, routes_json, status_json, nextName, dropped, sent,
                   lastPass, fails>>
    /\ UNCHANGED <<flowVars, hostVars, tableVars, writeVars>>

\* A client writes a control message into router INBOX.
ClientSend ==
    /\ rpc = "control"
    /\ sent < MaxSent
    /\ \E cm \in ControlMsgs :
         ctl_inbox' = ctl_inbox \cup {[name |-> ClientName(sent + 1), ok |-> TRUE,
                                       channel |-> cm.channel, signal |-> cm.signal]}
    /\ sent' = sent + 1
    /\ UNCHANGED <<rpc, mode, quit_requested, tick, rroutes, routes_dirty,
                   state_dirty, stats, discard_unrouted, events, dirs, files, acks,
                   routes_json, status_json, nextName, dropped, lastPass, fails>>
    /\ UNCHANGED <<flowVars, hostVars, tableVars, writeVars>>

\* Another client writes a control message into router INBOX while the router
\* is draining.
LateName(k) == 3000 + k

ClientSendLate ==
    /\ rpc = "drain"
    /\ sent < MaxSent
    /\ \E cm \in ControlMsgs :
         ctl_inbox' = ctl_inbox \cup {[name |-> LateName(sent + 1), ok |-> TRUE,
                                       channel |-> cm.channel, signal |-> cm.signal]}
    /\ sent' = sent + 1
    /\ UNCHANGED <<rpc, mode, quit_requested, tick, rroutes, routes_dirty,
                   state_dirty, stats, discard_unrouted, events, dirs, files, acks,
                   routes_json, status_json, nextName, dropped, lastPass, fails>>
    /\ UNCHANGED <<flowVars, hostVars, tableVars, writeVars>>

\* A destination folder is removed, with what it holds, or created again.
FolderChange ==
    /\ BeforePass
    /\ IF "/dst2" \in dirs
       THEN /\ dirs' = dirs \ {"/dst2"}
            /\ files' = {f \in files : f.folder # "/dst2"}
       ELSE /\ dirs' = dirs \cup {"/dst2"}
            /\ files' = files
    /\ UNCHANGED <<rpc, mode, quit_requested, tick, rroutes, routes_dirty,
                   state_dirty, stats, discard_unrouted, events, ctl_inbox, acks,
                   routes_json, status_json, nextName, dropped, sent, lastPass, fails>>
    /\ UNCHANGED <<flowVars, hostVars, tableVars, writeVars>>

\* ---------------------------------------------------- write_json_atomic
\* A file name: stem and suffix; glob("*.json") matches the suffix.
FileName(stem, ext) == [stem |-> stem, ext |-> ext]

matches_json(name) == name.ext = "json"

\* A path: a directory and a file name in it.
FilePath(dir, name) == [dir |-> dir, name |-> name]

\* A file on disk: the document it holds (or a prefix of it) and how many of
\* the document's MaxChunks chunks it holds.
DiskFile(path, doc, bytes) == [path |-> path, doc |-> doc, bytes |-> bytes]

FilesAt(d, path) == {f \in d : f.path = path}

\* The callers of write_json_atomic and the final paths they pass; fresh = the
\* name comes from _generate_message_filename and names no existing file.
WriteCalls ==
    { [caller |-> "_execute_copies",
       path |-> FilePath("/dst1", FileName("msg_1", "json")), fresh |-> TRUE],
      [caller |-> "write_message",
       path |-> FilePath(kOUTBOX, FileName("msg_2", "json")), fresh |-> TRUE],
      [caller |-> "write_acknowledgement",
       path |-> FilePath("/", FileName("ack", "")), fresh |-> FALSE],
      [caller |-> "publish_status",
       path |-> FilePath("/router", FileName("status", "json")), fresh |-> FALSE],
      [caller |-> "publish_routes",
       path |-> FilePath("/router", FileName("routes", "json")), fresh |-> FALSE] }

NoCall == [pc |-> "idle", caller |-> "", path |-> FilePath("", FileName("", "")),
           doc |-> 0, before |-> {}, raised_at |-> ""]

\* tempfile.mkstemp(dir=path.parent, suffix=".tmp"): the temporary file's path.
mkstemp_json_suffix(path) == FilePath(path.dir, FileName("tmp", "json"))

mkstemp(path) == FilePath(path.dir, FileName("tmp", "tmp"))

\* Path(tmp_path).replace(path): rename over the final path.
replace_path(d, tmp_path, path) ==
    (d \ (FilesAt(d, tmp_path) \cup FilesAt(d, path)))
        \cup {[f EXCEPT !.path = path] : f \in FilesAt(d, tmp_path)}

\* Path(tmp_path).unlink(missing_ok=True)
unlink_path(d, path) == d \ FilesAt(d, path)

\* No write is in progress and nothing was written.
WriterIdle ==
    /\ disk = {}
    /\ wr = NoCall

\* The router directory before a run: empty, or with the status.json and
\* routes.json of an earlier run.
WriteStart ==
    /\ disk \in { {},
                  { DiskFile(FilePath("/router", FileName("status", "json")), 1,
                             MaxChunks),
                    DiskFile(FilePath("/router", FileName("routes", "json")), 1,
                             MaxChunks) } }
    /\ wr = NoCall

WriteFrame == UNCHANGED <<flowVars, routerVars, hostVars, tableVars>>

\* write_json_atomic(path, obj) is called; json.dumps(obj) has returned.
CallWrite ==
    /\ wr.pc \in {"idle", "returned", "raised"}
    /\ \E c \in WriteCalls, doc \in 1..MaxDocs :
        /\ c.fresh => FilesAt(disk, c.path) = {}
        /\ wr' = [pc |-> "mkstemp", caller |-> c.caller, path |-> c.path,
                  doc |-> doc, before |-> FilesAt(disk, c.path), raised_at |-> ""]
    /\ UNCHANGED disk
    /\ WriteFrame

\* fd, tmp_path = tempfile.mkstemp(dir=path.parent, suffix=".tmp")
Mkstemp ==
    /\ wr.pc = "mkstemp"
    /\ disk' = disk \cup {DiskFile(mkstemp(wr.path), wr.doc, 0)}
    /\ wr' = [wr EXCEPT !.pc = "write"]
    /\ WriteFrame

\* mkstemp raises (the directory is gone, the disk is full): outside the try.
MkstempRaises ==
    /\ wr.pc = "mkstemp"
    /\ wr' = [wr EXCEPT !.pc = "raised", !.raised_at = "mkstemp"]
    /\ UNCHANGED disk
    /\ WriteFrame

\* f.write(content) and the close of the with block: the content reaches the
\* temporary file chunk by chunk.
WriteChunk ==
    /\ wr.pc = "write"
    /\ \E f \in FilesAt(disk, mkstemp(wr.path)) :
        /\ f.bytes < MaxChunks
        /\ disk' = (disk \ {f}) \cup {[f EXCEPT !.bytes = @ + 1]}
        /\ wr' = [wr EXCEPT !.pc = IF f.bytes + 1 = MaxChunks THEN "replace"
                                   ELSE "write"]
    /\ WriteFrame

\* Path(tmp_path).replace(path)
Replace ==
    /\ wr.pc = "replace"
    /\ disk' = replace_path(disk, mkstemp(wr.path), wr.path)
    /\ wr' = [wr EXCEPT !.pc = "returned"]
    /\ WriteFrame

\* The write, the close or the rename raises: the bare except unlinks the
\* temporary file and re-raises.
WriteRaises ==
    /\ wr.pc \in {"write", "replace"}
    /\ disk' = unlink_path(disk, mkstemp(wr.path))
    /\ wr' = [wr EXCEPT !.pc = "raised", !.raised_at = wr.pc]
    /\ WriteFrame

\* ======================================================================
\* Specifications
\* ======================================================================
Init == FlowInit /\ RouterOff /\ HostOff /\ TableStart /\ WriterIdle

Next ==
    \/ Run
    \/ RouteEverything
    \/ ActivateTurn
    \/ ActivateDone
    \/ RunLoop

Spec == Init /\ [][Next]_vars

RouterInit == FlowOff /\ RouterStart /\ HostOff /\ TableStart /\ WriterIdle

RouterNext ==
    \/ Boot
    \/ InitialPass
    \/ InitialPublish
    \/ TickPass
    \/ ProcessControlInputs
    \/ PublishStateIfDirty
    \/ Interrupt
    \/ EnterDraining
    \/ DrainPass
    \/ DrainDone
    \/ ProducerWrite
    \/ ProducerFinish
    \/ ClientSend
    \/ FolderChange

RouterSpec == RouterInit /\ [][RouterNext]_vars

\* run() with no limit on the number of cycles; every step that can be taken
\* is taken (the interpreter keeps running).
FixpointInit == Init

FixpointNext ==
    \/ Run
    \/ RouteEverything
    \/ ActivateTurn
    \/ ActivateDone
    \/ RunLoopOn

FixpointSpec == FixpointInit /\ [][FixpointNext]_vars /\ WF_vars(FixpointNext)

\* run() with every activation entered and left in separate steps, and
\* activations that may raise.
ContextInit == Init

ContextNext ==
    \/ Run
    \/ RouteEverything
    \/ SkipTurn
    \/ InstallTurn
    \/ ActivationReturns
    \/ ActivationFault
    \/ ActivateDone
    \/ RunLoop

ContextSpec == ContextInit /\ [][ContextNext]_vars

\* Calls of write_json_atomic, one at a time, step by step.
AtomicWriteInit == FlowOff /\ RouterOff /\ HostOff /\ TableStart /\ WriteStart

AtomicWriteNext ==
    \/ CallWrite
    \/ Mkstemp
    \/ MkstempRaises
    \/ WriteChunk
    \/ Replace
    \/ WriteRaises

AtomicWriteSpec == AtomicWriteInit /\ [][AtomicWriteNext]_vars

\* The router started on any events.jsonl, a cut one included.
ReplayInit == FlowOff /\ ReplayStart /\ HostOff /\ TableStart /\ WriterIdle

ReplayNext ==
    \/ RouterNext
    \/ BootCrash

ReplaySpec == ReplayInit /\ [][ReplayNext]_vars

\* The router with a producer whose unfinished files may end inside a
\* multi-byte character.
PartialWriteInit == RouterInit

PartialWriteNext ==
    \/ RouterNext
    \/ ProducerWriteCut
    \/ PassCrash

PartialWriteSpec == PartialWriteInit /\ [][PartialWriteNext]_vars

\* The router keeps ticking: no quit message, no interrupt; the destination
\* folders stay; write errors are finitely many (MaxFail).
LiveNext ==
    \/ Boot
    \/ InitialPass
    \/ InitialPublish
    \/ TickPass
    \/ ProcessControlInputs
    \/ PublishStateIfDirty
    \/ ProducerWrite
    \/ ProducerFinish

\* cmd_run and run_main_loop: every statement is followed by the next one.
RouterTicks ==
    \/ Boot
    \/ InitialPass
    \/ InitialPublish
    \/ TickPass
    \/ ProcessControlInputs
    \/ PublishStateIfDirty

RouterLive == RouterInit /\ [][LiveNext]_vars /\ WF_vars(RouterTicks)

ShutdownInit == FlowOff /\ ShutdownStart /\ HostOff /\ TableStart /\ WriterIdle

\* The router's run from cmd_run to the end of the shutdown drain.
ShutdownNext == RouterNext \/ ClientSendLate

ShutdownSpec == ShutdownInit /\ [][ShutdownNext]_vars

\* The registry, table and wiring console calls of a host program, in any
\* order, before run().
TableInit == FlowOff /\ RouterOff /\ HostOff /\ TableStart /\ WriterIdle

TableNext ==
    \/ DeclareComponent
    \/ MakeComponent
    \/ UnregisterComponent
    \/ DelistComponent
    \/ AddRoute
    \/ RemoveRoute
    \/ ClearRoutes
    \/ WireSession

TableSpec == TableInit /\ [][TableNext]_vars

\* The registry and the wiring console alone: every route is committed by a
\* wiring session.
ConsoleInit == FlowOff /\ RouterOff /\ HostOff /\ TableStart /\ WriterIdle

ConsoleNext ==
    \/ DeclareComponent
    \/ MakeComponent
    \/ UnregisterComponent
    \/ ConsoleSession
    \/ ClearRoutes

ConsoleSpec == ConsoleInit /\ [][ConsoleNext]_vars

\* run(cycles) with activations that mutate the messages they receive.
FanoutInit == Init

FanoutNext ==
    \/ Run
    \/ RouteEverything
    \/ ActivateTurn
    \/ MutatingTurn
    \/ ActivateDone
    \/ RunLoop

FanoutSpec == FanoutInit /\ [][FanoutNext]_vars

\* run(cycles) over a registry that holds an adapter component.
AdapterNext ==
    \/ Run
    \/ RouteEverything
    \/ ActivateTurn
    \/ AdapterTurn
    \/ ActivateDone
    \/ RunLoop
    \/ HostTake

AdapterInit == AdapterSetup /\ RouterOff /\ TableStart /\ WriterIdle

AdapterSpec == AdapterInit /\ [][AdapterNext]_vars

\* ============================================================ IntraFlow claims
\* The state route_everything leaves: Phase 1 done, no component activated yet.
JustRouted == pc = "cycle" /\ phase = 2 /\ idx = 1

HasRouteFrom(c) == \E j \in 1..Len(routes) : routes[j].src = c

HasRouteTo(c) == \E j \in 1..Len(routes) : routes[j].dest = c

\* Positions of the messages the last route_everything appended to d's inbox.
NewPos(d) == (Len(preInbox[d]) + 1)..Len(inbox[d])

Matches(j, s, msg) == routes[j].src = s /\ routes[j].src_channel = msg.channel

\* C1: two-phase isolation. From the first cycle on, every message in an inbox,
\* and every message an activation has received, was made in an earlier cycle
\* than the current one; and once Phase 1 of a cycle is over, the outbox of a
\* routed source holds only messages made in that very cycle (the older ones
\* were all moved by this cycle's route_everything).
C1_TwoPhaseIsolation ==
    cycle >= 1 =>
        /\ \A c \in Refs : \A i \in 1..Len(inbox[c]) :
               born[inbox[c][i].timestamp] < cycle
        /\ lastObs.msg # NoMsg => born[lastObs.msg.timestamp] < lastObs.cycle
        /\ (pc \in {"check", "done"} \/ (pc = "cycle" /\ phase = 2)) =>
               \A c \in Refs : HasRouteFrom(c) =>
                   \A i \in 1..Len(outbox[c]) : born[outbox[c][i].timestamp] = cycle

\* An activation received a message that an activation of the cycle before emitted.
C1_Witness ==
    /\ lastObs.msg # NoMsg
    /\ born[lastObs.msg.timestamp] >= 1
    /\ born[lastObs.msg.timestamp] = lastObs.cycle - 1

\* C5: message conservation in Phase 1. After route_everything every source of a
\* route has an empty outbox; every inbox keeps what it held and gains, for each
\* drained message and destination, exactly as many messages as there are routes
\* from that source and channel to that destination; nothing else is appended.
C5_MessageConservation ==
    JustRouted =>
        /\ \A s \in Refs : HasRouteFrom(s) => outbox[s] = <<>>
        /\ \A d \in Refs :
               /\ Len(inbox[d]) >= Len(preInbox[d])
               /\ SubSeq(inbox[d], 1, Len(preInbox[d])) = preInbox[d]
        /\ \A s \in Refs : HasRouteFrom(s) =>
               \A i \in 1..Len(preOutbox[s]) : \A d \in Refs :
                   Cardinality({k \in NewPos(d) :
                       inbox[d][k].timestamp = preOutbox[s][i].timestamp})
                   = Cardinality({j \in 1..Len(routes) :
                       Matches(j, s, preOutbox[s][i]) /\ routes[j].dest = d})
        /\ \A d \in Refs : \A k \in NewPos(d) :
               \E s \in Refs : /\ HasRouteFrom(s)
                               /\ \E i \in 1..Len(preOutbox[s]) :
                                      preOutbox[s][i].timestamp = inbox[d][k].timestamp

\* route_everything drained a message that two routes or more carry, and one
\* that no route carries.
C5_Witness ==
    /\ JustRouted
    /\ \E s \in Refs : \E i \in 1..Len(preOutbox[s]) :
           Cardinality({j \in 1..Len(routes) : Matches(j, s, preOutbox[s][i])}) >= 2
    /\ \E s \in Refs : /\ HasRouteFrom(s)
                       /\ \E i \in 1..Len(preOutbox[s]) :
                              \A j \in 1..Len(routes) : ~Matches(j, s, preOutbox[s][i])

\* C7: round-robin fairness. No component is activated twice in one Phase 2; and
\* a registered component that no route delivers to, seeded with n messages, has
\* max(0, n - k) of them left after k cycles: empty after n cycles, not before.
C7_RoundRobin ==
    /\ \A c \in Refs : acts[c] <= 1
    /\ pc \in {"check", "done"} =>
           \A i \in 1..Len(components) :
               ~HasRouteTo(components[i]) =>
                   Len(inbox[components[i]])
                       = Max(0, Len(seed[components[i]]) - cycle)

\* A component seeded with two messages or more has just become empty, in
\* exactly as many cycles.
C7_Witness ==
    /\ pc = "check"
    /\ ~HasRouteTo("p")
    /\ Len(seed["p"]) >= 2
    /\ cycle = Len(seed["p"])
    /\ inbox["p"] = <<>>

\* C8: when run(n) has returned, it ran exactly n cycles if n > 0; if n = 0 it ran
\* one cycle at least and every registered component's inbox and outbox is empty.
C8_RunCycles ==
    pc = "done" =>
        /\ cycles > 0 => cycle = cycles
        /\ cycles = 0 =>
               /\ cycle >= 1
               /\ \A i \in 1..Len(components) :
                      inbox[components[i]] = <<>> /\ outbox[components[i]] = <<>>

\* run(0) returned after more than one cycle, having had messages to move.
C8_Witness ==
    /\ pc = "done"
    /\ cycles = 0
    /\ cycle >= 2
    /\ now >= 2

\* C9: channel rewriting. Every message route_everything appended to an inbox
\* has the dest-channel of a route to that inbox, and the signal and timestamp of
\* a message that was in that route's source outbox on the route's src-channel.
C9_ChannelRewriting ==
    JustRouted =>
        \A d \in Refs : \A k \in NewPos(d) :
            \E j \in 1..Len(routes) :
                /\ routes[j].dest = d
                /\ routes[j].dest_channel = inbox[d][k].channel
                /\ \E i \in 1..Len(preOutbox[routes[j].src]) :
                       LET m == preOutbox[routes[j].src][i]
                       IN  /\ m.channel = routes[j].src_channel
                           /\ m.signal = inbox[d][k].signal
                           /\ m.timestamp = inbox[d][k].timestamp

\* A message was delivered on a channel other than the one it was emitted on.
C9_Witness ==
    /\ JustRouted
    /\ \E d \in Refs : \E k \in NewPos(d) : \E s \in Refs :
           \E i \in 1..Len(preOutbox[s]) :
               /\ preOutbox[s][i].timestamp = inbox[d][k].timestamp
               /\ preOutbox[s][i].channel # inbox[d][k].channel
               /\ born[inbox[d][k].timestamp] >= 1

\* C10 as stated: after route_everything no registered component's outbox holds a
\* message whose channel matches none of its routes, whether the component is
\* the source of a route or not.
C10_AsStated ==
    JustRouted =>
        \A i \in 1..Len(components) :
            \A k \in 1..Len(outbox[components[i]]) :
                \E j \in 1..Len(routes) :
                    Matches(j, components[i], outbox[components[i]][k])

\* C10 amended: after route_everything the outbox of every component that is the
\* source of at least one route is empty, and a message of it that matched no
\* route is in no inbox; the outbox of a component that is the source of no
\* route is left as it was.
C10_UnmatchedConsumed ==
    JustRouted =>
        \A c \in Refs :
            IF HasRouteFrom(c)
            THEN /\ outbox[c] = <<>>
                 /\ \A i \in 1..Len(preOutbox[c]) :
                        (\A j \in 1..Len(routes) : ~Matches(j, c, preOutbox[c][i])) =>
                            \A d \in Refs : \A k \in NewPos(d) :
                                inbox[d][k].timestamp # preOutbox[c][i].timestamp
            ELSE outbox[c] = preOutbox[c]

\* route_everything met an unmatched message in a routed source's outbox while a
\* registered component that is the source of no route held a message too.
C10_Witness ==
    /\ JustRouted
    /\ \E c \in Refs : /\ HasRouteFrom(c)
                       /\ \E i \in 1..Len(preOutbox[c]) :
                              \A j \in 1..Len(routes) : ~Matches(j, c, preOutbox[c][i])
    /\ \E i \in 1..Len(components) :
           ~HasRouteFrom(components[i]) /\ outbox[components[i]] # <<>>

\* =============================================================== Router claims
\* route matches the message file f (source folder, and channel or wildcard).
RouteMatches(route, f) ==
    /\ route.source_folder = f.folder
    /\ route.source_channel \in {f.channel, "*"}

\* The source files pass p planned copies for, the copies planned for one of
\* them, and the file itself as the pass found it.
PassSources(p) == {p.copies[i].src : i \in 1..Len(p.copies)}

PlannedFor(p, s) == {i \in 1..Len(p.copies) : p.copies[i].src = s}

SourceFile(p, s) == CHOOSE f \in p.pre : f.name = s

SomeCopyFailed(p, s) == ~(PlannedFor(p, s) \subseteq p.ok)

\* Pass p deleted no source file whose copies did not all succeed.
NoPartialSuccessDelete(p) ==
    \A s \in PassSources(p) :
        /\ SourceFile(p, s) \notin p.post => PlannedFor(p, s) \subseteq p.ok
        /\ SomeCopyFailed(p, s) => SourceFile(p, s) \in p.post

\* Pass q scans the folder of f and its table has a route matching f.
StillRouted(q, f) ==
    /\ f \in q.pre
    /\ f.folder \in q.dirs
    /\ q.draining => f.folder = kOUTBOX
    /\ \E i \in 1..Len(q.routes) : RouteMatches(q.routes[i], f)

\* C2 as stated: in every delivery pass a source file with planned copies is
\* deleted only if all of them succeeded; a source file with a failed copy is
\* still there after the pass and the next pass, whatever it is, plans it again.
C2_AsStated ==
    [][tick' # tick =>
         /\ NoPartialSuccessDelete(lastPass')
         /\ \A s \in PassSources(lastPass) :
                SomeCopyFailed(lastPass, s) => s \in PassSources(lastPass')]_vars

\* C2 (amended): in every delivery pass a source file with planned copies is
\* deleted only if all of them succeeded; a source file with a failed copy is
\* still there after the pass, and the next pass plans it again provided that
\* pass scans the file's folder (a drain pass scans router OUTBOX only) and the
\* file, its folder and a matching route are still there.
C2_NoPartialSuccessDelete ==
    [][tick' # tick =>
         /\ NoPartialSuccessDelete(lastPass')
         /\ \A s \in PassSources(lastPass) :
                (/\ SomeCopyFailed(lastPass, s)
                 /\ StillRouted(lastPass', SourceFile(lastPass, s)))
                    => s \in PassSources(lastPass')]_vars

\* A pass in which one copy of a source file succeeded and another failed.
C2_Witness ==
    \E s \in PassSources(lastPass) :
        /\ PlannedFor(lastPass, s) \cap lastPass.ok # {}
        /\ SomeCopyFailed(lastPass, s)
        /\ SourceFile(lastPass, s) \in files

\* The k-th producer file, parseable, on channel ch, waits in its source
\* folder and some route matches it.
Waiting(k, ch) ==
    \E f \in files :
        /\ f.name = ProducerName(k)
        /\ f.ok
        /\ f.channel = ch
        /\ \E i \in 1..Len(rroutes) : RouteMatches(rroutes[i], f)

\* The k-th producer file is gone from its source folder and every destination
\* of a matching route holds a copy of it under the route's channel.
Delivered(k, ch) ==
    /\ \A f \in files : f.name # ProducerName(k)
    /\ \A i \in 1..Len(rroutes) :
          RouteMatches(rroutes[i], [folder |-> "/src", channel |-> ch]) =>
              \E c \in files :
                  /\ c.folder = rroutes[i].destination_folder
                  /\ c.channel = rroutes[i].destination_channel
                  /\ c.signal = "payload"
                  /\ c.timestamp = k

C4_EventLogReplayability ==
    rpc \notin {"off", "boot"} =>
        replay_events_log_and_rebuild_routing_table(events) = rroutes

\* This run has logged a route_added and then a route_removed after its
\* startup event, and the table is not empty.
C4_Witness ==
    /\ rroutes # <<>>
    /\ \E i, j, k \in 1..Len(events) :
          /\ i < j /\ j < k
          /\ events[i].event = "startup"
          /\ \A m \in (i + 1)..Len(events) : events[m].event # "startup"
          /\ events[j].event = "route_added"
          /\ events[k].event = "route_removed"

\* ====================================================== IntraFlow host claims
\* The step is the scheduler's turn of adapter component c.
AdapterTurnOf(c) == adapter_kind[c] # "" /\ acts'[c] = acts[c] + 1

\* What the adapter's turn leaves in the container before appending: a list or
\* queue is drained into the outbox first, a directory keeps its files.
Kept(c) == IF adapter_kind[c] = "filetalk" THEN store[c] ELSE <<>>

\* C11: adapter delivery without loss.  When the scheduler gives an adapter
\* component its turn, every message that was routed into the adapter's inbox
\* is either appended to the wrapped container, once and in arrival order, or
\* still waits in the inbox: container and inbox together hold exactly the
\* messages kept in the container followed by the inbox as the turn found it.
C11_AsStated ==
    [][\A c \in Refs :
          AdapterTurnOf(c) => store'[c] \o inbox'[c] = Kept(c) \o inbox[c]]_vars

\* What a receiver reads in message m: its fields, the signal being the
\* content of the payload object.
Content(m) ==
    [channel |-> m.channel, signal |-> payload[m.signal], timestamp |-> m.timestamp]

\* Message m was delivered from the same source message as the one the last
\* activation received (route_everything copies the timestamp).
FanoutSibling(m) == m.timestamp = lastObs.msg.timestamp

\* C14: fanout independence.  When a receiver mutates the signal payload of
\* the message delivered to it, what every other destination of the same
\* source message received stays as it was.
C14_AsStated ==
    [][payload' # payload =>
         \A d \in Refs \ {lastObs'.comp} :
             /\ Len(inbox'[d]) = Len(inbox[d])
             /\ \A i \in 1..Len(inbox[d]) :
                   FanoutSibling(inbox[d][i])' => Content(inbox[d][i])' = Content(inbox[d][i])]_vars

\* ===================================================== IntraFlow table claims
\* The table rs without the routes whose src or dest is the object comp.
Without(rs, comp) == SelectSeq(rs, LAMBDA r : r.src # comp /\ r.dest # comp)

\* C15: unregistration removes routes.  Whatever component is delisted
\* (delist_component(comp), or unregister_component(id) for the component id
\* names), the table it leaves holds no route whose src or dest is that
\* component and holds every other route, as often and in the order it did.
C15_AsStated ==
    \A comp \in Created :
        delist_component(objects, routes, comp) = Without(routes, comp)

\* route names an id that no registered component has, or an id that is not
\* the id of the ref it is given with.
BadId(ref, id) == id # "" /\ (comp_of[id] = 0 \/ (ref # 0 /\ comp_of[id] # ref))

\* One endpoint of a route of the table is bound: the ref is there and the
\* id, if set, is registered for exactly that ref.
Bound(ref, id) == ref # 0 /\ (id # "" => comp_of[id] = ref)

\* C16: fully-bound table.  Every route of the table has both refs, and an id
\* that is set is registered for exactly that ref; add_route with an id that
\* names no registered component, or that does not match the ref supplied,
\* raises and leaves the table as it was.
C16_FullyBound ==
    /\ \A i \in 1..Len(routes) :
          /\ Bound(routes[i].src, routes[i].src_id)
          /\ Bound(routes[i].dest, routes[i].dest_id)
    /\ \A route \in RouteDicts :
          (BadId(route.src, route.src_id) \/ BadId(route.dest, route.dest_id))
              => intraflow_add_route(comp_of, routes, route)
                     = [raised |-> TRUE, routes |-> routes]

\* add_route has just raised on a table that holds a route with an id, while
\* some caller's route dict carries an id that does not match its ref.
C16_Witness ==
    /\ lastOp = Op("add_route", FALSE, TRUE)
    /\ \E i \in 1..Len(routes) : routes[i].src_id # ""
    /\ \E route \in RouteDicts :
          /\ route.src # 0
          /\ route.src_id # ""
          /\ comp_of[route.src_id] \notin {0, route.src}

\* The "id" key of what the console addresses: the id string itself, or the
\* key of the component dict ("" if it has none).
AddressedId(x) == IF x.ref = 0 THEN x.id ELSE objects[x.ref]

\* C17: persistence.  Every persistent route of the table has src_id and
\* dest_id; add_route on a persistent route dict without src_id or dest_id,
\* and commit_links after persist_links for an endpoint without id, raise and
\* add nothing.
C17_Persistence ==
    /\ \A i \in 1..Len(routes) :
          routes[i].persistent => (routes[i].src_id # "" /\ routes[i].dest_id # "")
    /\ \A route \in RouteDicts :
          (route.persistent /\ (route.src_id = "" \/ route.dest_id = ""))
              => intraflow_add_route(comp_of, routes, route)
                     = [raised |-> TRUE, routes |-> routes]
    /\ \A prior \in PriorWires, src \in Addressable, dest \in Addressable,
          links \in SeqsUpTo(WireLinks, MaxLinks) :
          (AddressedId(src) = "" \/ AddressedId(dest) = "")
              => LET staged == wiring(prior, src, dest, TRUE, links)
                     res == commit_links(comp_of, objects, routes, staged.wire)
                 IN  staged.raised \/ (res.raised /\ res.routes = routes)

\* A persistent route is in the table and a later wiring session or add_route
\* raised, an anonymous component being there to be wired.
C17_Witness ==
    /\ lastOp.raised
    /\ lastOp.op \in {"add_route", "commit_links"}
    /\ \E i \in 1..Len(routes) : routes[i].persistent
    /\ \E o \in Created : objects[o] = ""

\* How often the route r is in the table rs.
CountOf(rs, r) == Cardinality({i \in 1..Len(rs) : rs[i] = r})

\* The tables rs and ts hold the same routes, each as often.
SameRoutes(rs, ts) ==
    \A r \in Range(rs) \cup Range(ts) : CountOf(rs, r) = CountOf(ts, r)

\* The positions of rs whose route has the endpoints and channels of q.
KeyMatches(rs, q) ==
    {i \in 1..Len(rs) :
        /\ rs[i].src = q.src
        /\ rs[i].src_channel = q.src_channel
        /\ rs[i].dest = q.dest
        /\ rs[i].dest_channel = q.dest_channel}

\* The table rs without its position i.
DropAt(rs, i) == SubSeq(rs, 1, i - 1) \o SubSeq(rs, i + 1, Len(rs))

Least(S) == CHOOSE i \in S : \A j \in S : i <= j

\* add_route(r) on the table, then remove_route with the endpoints and
\* channels of r as the table holds it: [ok, ret, r, routes].
RoundTrip(route) ==
    LET added == intraflow_add_route(comp_of, routes, route)
        r == added.routes[Len(added.routes)]
        removed == intraflow_remove_route(added.routes, r.src, r.src_channel,
                                          r.dest, r.dest_channel)
    IN  IF added.raised THEN [ok |-> FALSE, ret |-> FALSE, r |-> NoRoute, routes |-> routes]
        ELSE [ok |-> TRUE, ret |-> removed.ret, r |-> r, routes |-> removed.routes]

\* C19 as stated: add_route(r) followed by remove_route on r's endpoints and
\* channels returns True and leaves exactly the routes the table had: same
\* endpoints, channels, ids and persistent flags, each as often.
C19_AsStated ==
    \A route \in RouteDicts :
        LET rt == RoundTrip(route)
        IN  rt.ok => (rt.ret /\ SameRoutes(rt.routes, routes))

\* C19 (amended): add_route(r) followed by remove_route on r's endpoints and
\* channels returns True and leaves, for every pair of endpoints and channels,
\* as many routes as the table had.  The table is as it was if it held no
\* route with r's endpoints and channels; otherwise the first such route is
\* gone and r, with its own ids and persistent flag, stands at the end.
C19_RoundTrip ==
    \A route \in RouteDicts :
        LET rt == RoundTrip(route)
            hits == KeyMatches(routes, rt.r)
        IN  rt.ok =>
              /\ rt.ret
              /\ \A q \in Range(routes) \cup {rt.r} :
                    Cardinality(KeyMatches(rt.routes, q))
                        = Cardinality(KeyMatches(routes, q))
              /\ rt.routes = IF hits = {} THEN routes
                             ELSE Append(DropAt(routes, Least(hits)), rt.r)

\* remove_route has just followed an add_route on a table that already held a
\* route with the same endpoints and channels: it returned True and the one
\* route left is the added, persistent one, where the earlier route stood.
C19_Witness ==
    /\ lastOp.op = "remove_route"
    /\ lastOp.round_trip
    /\ lastOp.ret
    /\ Len(routes) = 1
    /\ routes[1].persistent

\* C20: remove_route(src, src_ch, dest, dest_ch) removes the first route of
\* the table whose src and dest are those very objects and whose channels are
\* equal, and returns True; the other routes, duplicates included, stay in
\* place and in order; it returns False, leaving the table, if there is none.
C20_RemoveFirstMatch ==
    \A src \in Created, dest \in Created, sc \in Channels, dc \in Channels :
        LET hits == KeyMatches(routes, RouteDict("", src, sc, "", dest, dc, FALSE))
            res == intraflow_remove_route(routes, src, sc, dest, dc)
        IN  IF hits = {}
            THEN res = [ret |-> FALSE, routes |-> routes]
            ELSE res = [ret |-> TRUE, routes |-> DropAt(routes, Least(hits))]

\* remove_route has just returned True and left a route in the table, while
\* a second component with the same contents as one of its endpoints exists.
C20_Witness ==
    /\ lastOp.op = "remove_route"
    /\ lastOp.ret
    /\ routes # <<>>
    /\ \E o \in Created :
          o # routes[1].src /\ component_eq(objects, o, routes[1].src)

\* ====================================================== Router claims (II)
\* The OUTBOX message files that match a route of the table.
Deliverable(fs) ==
    {f \in fs : /\ f.folder = kOUTBOX
                /\ f.ok
                /\ routes_for_source(rroutes, kOUTBOX, f.channel) # <<>>}

\* The step is one iteration of the drain loop.
DrainPassStep == rpc = "drain" /\ tick' = tick + 1

\* C12: the shutdown drain terminates whatever the table and the destination
\* folders are.  Routing is frozen while draining, so the loop ends only if
\* every draining pass in which no write fails leaves fewer deliverable
\* messages in router OUTBOX than it found; and when the drain is over no
\* OUTBOX message matches a route.
C12_AsStated ==
    [][/\ (DrainPassStep /\ fails' = fails)
           => Cardinality(Deliverable(files')) < Cardinality(Deliverable(files))
       /\ (rpc = "drain" /\ rpc' = "stopped") => Deliverable(files') = {}]_vars

\* The routes of pass p that match the message file f, as table positions.
MatchingRoutes(p, f) == {i \in 1..Len(p.routes) : RouteMatches(p.routes[i], f)}

\* The folders a pass in normal mode scans: every source folder of the table
\* and router OUTBOX, if they exist.
ScannedFolders(p) ==
    ({p.routes[i].source_folder : i \in 1..Len(p.routes)} \cup {kOUTBOX}) \cap p.dirs

\* Parseable files pass p found in a scanned folder.
Readable(p) == {f \in p.pre : f.ok /\ f.folder \in ScannedFolders(p)}

\* ... that match at least one route, and those matching none.
Routed(p) == {f \in Readable(p) : MatchingRoutes(p, f) # {}}

Unrouted(p) == {f \in Readable(p) : MatchingRoutes(p, f) = {}}

\* ... that match at least one route, all destination folders being present.
FullyRouted(p) ==
    {f \in Routed(p) :
        \A i \in MatchingRoutes(p, f) : p.routes[i].destination_folder \in p.dirs}

\* No write of pass p raised OSError.
NoWriteFailed(p) ==
    \A i \in 1..Len(p.copies) : p.copies[i].dest_folder \in p.dirs => i \in p.ok

\* The files pass p wrote, and those of them that carry f's signal and
\* timestamp.
Written(p) == p.post \ p.pre

WrittenFor(p, f) ==
    {c \in Written(p) : c.signal = f.signal /\ c.timestamp = f.timestamp}

\* A delivery pass in normal mode whose writes all went through.
CleanNormalPass(p) == p # NoPass /\ ~p.draining /\ NoWriteFailed(p)

RouterTable ==
    [routes |-> rroutes, events |-> events, routes_dirty |-> routes_dirty,
     state_dirty |-> state_dirty, acks |-> acks,
     quit_requested |-> quit_requested, inbox |-> ctl_inbox]

\* The route a link / unlink signal names.
RouteOf(signal) ==
    _make_route_dict(signal.source_folder, signal.source_channel,
                     signal.destination_channel, signal.destination_folder)

SignalOf(route, ack) ==
    ControlSignal(route.source_folder, route.source_channel,
                  route.destination_channel, route.destination_folder, ack)

\* Link / unlink signals: those of the control messages clients write, and
\* one for every route of the table and of R1..R3, with and without ack-path.
RoundTripSignals ==
    {c.signal : c \in {m \in ControlMsgs : m.channel \in {"link", "unlink"}}}
        \cup {SignalOf(r, ack) : r \in Range(rroutes) \cup {R1, R2, R3},
                                 ack \in {"", "/ack"}}

\* A link signal and an unlink signal for the same route: the same signal, or
\* two complete ones that canonicalize to one route.
SameRoute(link, unlink) ==
    \/ link = unlink
    \/ /\ HasAllFields(link) /\ HasAllFields(unlink)
       /\ RouteOf(link) = RouteOf(unlink)

\* handle_link_message then handle_unlink_message leave the table as it is and
\* the log replays to it.
RoundTripHolds(link, unlink) ==
    LET after == handle_unlink_message(handle_link_message(RouterTable, link), unlink)
    IN  /\ after.routes = rroutes
        /\ replay_events_log_and_rebuild_routing_table(after.events) = rroutes

\* C18 as stated: for any routing table and any route, a link of the route
\* followed by an unlink of it leaves the in-memory table identical to the one
\* before the link, and replaying the resulting events.jsonl yields that table.
C18_AsStated ==
    rpc \notin {"off", "boot"} =>
        \A link, unlink \in RoundTripSignals :
            SameRoute(link, unlink) => RoundTripHolds(link, unlink)

\* C18, amended: for any routing table and any route that is not in it, a link
\* of the route followed by an unlink of it leaves the in-memory table
\* identical to the one before the link, and replaying the resulting
\* events.jsonl yields that table.  (A link of a route the table holds adds
\* nothing, and the unlink then removes the route.)
C18_LinkUnlinkRoundTrip ==
    rpc \notin {"off", "boot"} =>
        \A link, unlink \in RoundTripSignals :
            /\ SameRoute(link, unlink)
            /\ HasAllFields(link) => RouteOf(link) \notin Range(rroutes)
            => RoundTripHolds(link, unlink)

\* process_control_inputs has just handled a link and then an unlink of one
\* route that a non-empty table did not hold: the log ends with its
\* route_added and route_removed lines.
C18_Witness ==
    /\ rpc = "publish"
    /\ rroutes # <<>>
    /\ Len(events) >= 2
    /\ events[Len(events) - 1].event = "route_added"
    /\ events[Len(events)].event = "route_removed"
    /\ events[Len(events)].data = events[Len(events) - 1].data
    /\ events[Len(events)].data \notin Range(rroutes)

\* ================================================== Wiring console claims
\* Every state the console can be in, for the components created so far.
ConsoleWires ==
    {[src |-> src, dest |-> dest, persist |-> persist, links |-> links] :
        src \in Addressable, dest \in Addressable, persist \in BOOLEAN,
        links \in SeqsUpTo(WireLinks, MaxLinks)}

\* The component dict an addressed endpoint stands for.
RefOf(x) == IF x.ref # 0 THEN x.ref ELSE comp_of[x.id]

\* The k-th route a commit of console w appends.
Committed(w, k) ==
    RouteDict(AddressedId(w.src), RefOf(w.src), w.links[k][1],
              AddressedId(w.dest), RefOf(w.dest), w.links[k][2], w.persist)

\* C21: commit_links, success path.  When commit_links succeeds, source and
\* destination were addressed and m >= 1 links were staged; the table is the
\* table before followed by m routes, one per staged pair in staging order,
\* between the addressed endpoints and with the persist flag of the console at
\* commit; the console is left with no staged link, persist false and the
\* same source and destination, and a following link_channels + commit_links
\* succeeds and adds a route between the same two endpoints.
C21_CommitLinks ==
    \A w \in ConsoleWires :
        LET res == commit_links(comp_of, objects, routes, w)
        IN  ~res.raised =>
              /\ ~is_none(w.src) /\ ~is_none(w.dest) /\ w.links # <<>>
              /\ Len(res.routes) = Len(routes) + Len(w.links)
              /\ SubSeq(res.routes, 1, Len(routes)) = routes
              /\ \A k \in 1..Len(w.links) :
                    res.routes[Len(routes) + k] = Committed(w, k)
              /\ res.wire = [w EXCEPT !.links = <<>>, !.persist = FALSE]
              /\ \A l \in WireLinks :
                    LET staged == link_channels(res.wire, l[1], l[2])
                        again == commit_links(comp_of, objects, res.routes, staged.wire)
                    IN  /\ ~staged.raised
                        /\ ~again.raised
                        /\ again.routes =
                               Append(res.routes,
                                      [Committed(w, 1) EXCEPT
                                          !.src_channel = l[1], !.dest_channel = l[2],
                                          !.persistent = FALSE])

\* A wiring session has just committed two staged links with the persist flag
\* set: the table holds the b -> a route before the a -> b route, both
\* persistent.
C21_Witness ==
    /\ lastOp.op = "commit_links"
    /\ ~lastOp.raised
    /\ Len(routes) = 2
    /\ routes[1].src_channel = "b" /\ routes[1].dest_channel = "a"
    /\ routes[2].src_channel = "a" /\ routes[2].dest_channel = "b"
    /\ routes[1].persistent /\ routes[2].persistent

\* commit_links on console w must fail for one of the causes the interface
\* names: no source or destination addressed, no link staged, an id string
\* that names no registered component, persist for an endpoint without id.
MustFail(w) ==
    \/ is_none(w.src) \/ is_none(w.dest)
    \/ w.links = <<>>
    \/ RefOf(w.src) = 0 \/ RefOf(w.dest) = 0
    \/ w.persist /\ (AddressedId(w.src) = "" \/ AddressedId(w.dest) = "")

\* C22: commit_links is atomic.  For any console state, commit_links either
\* fails and leaves the routing table exactly as before the call, or turns
\* every staged pair into a route; it fails when no source or destination is
\* addressed, no link is staged, a string endpoint names an unregistered
\* component, or persist is requested for an endpoint without an id.
C22_CommitAtomic ==
    \A w \in ConsoleWires :
        LET res == commit_links(comp_of, objects, routes, w)
        IN  /\ res.raised => res.routes = routes
            /\ ~res.raised =>
                  /\ Len(res.routes) = Len(routes) + Len(w.links)
                  /\ \A k \in 1..Len(w.links) :
                        /\ res.routes[Len(routes) + k].src_channel = w.links[k][1]
                        /\ res.routes[Len(routes) + k].dest_channel = w.links[k][2]
            /\ MustFail(w) => res.raised

\* A wiring session that staged links has just failed, an anonymous component
\* and an unregistered id being there to be addressed, and the table still
\* holds the one route committed before.
C22_Witness ==
    /\ lastOp.op = "commit_links"
    /\ lastOp.raised
    /\ Len(routes) = 1
    /\ \E o \in Created : objects[o] = ""
    /\ \E id \in Ids : comp_of[id] = 0

\* C23: wiring-state frame.  address_source(x) sets the source, clears the
\* persist flag and discards every staged link, leaving the destination; a
\* commit_links right after it fails and adds nothing, and no link staged
\* before a session's address_source (the b -> b link of a failed session) is
\* ever committed.  address_dest(x) sets the destination and leaves source,
\* persist flag and staged links.
C23_WiringFrame ==
    /\ \A w \in ConsoleWires \cup PriorWires, x \in Addressable :
          LET s == address_source(w, x)
              d == address_dest(w, x)
              res == commit_links(comp_of, objects, routes, s)
          IN  /\ s.src = x /\ s.persist = FALSE /\ s.links = <<>>
              /\ s.dest = w.dest
              /\ res.raised /\ res.routes = routes
              /\ d.dest = x
              /\ d.src = w.src /\ d.persist = w.persist /\ d.links = w.links
    /\ \A i \in 1..Len(routes) :
          ~(routes[i].src_channel = "b" /\ routes[i].dest_channel = "b")

\* A wiring session that found the persist flag and a staged link of a failed
\* session in the console has just committed its own links: the table holds
\* two routes, not persistent.
C23_Witness ==
    /\ lastOp.op = "commit_links"
    /\ lastOp.stale
    /\ ~lastOp.raised
    /\ Len(routes) = 2
    /\ ~routes[1].persistent /\ ~routes[2].persistent

\* ======================================================= Router claims (IV)
\* The step is a delivery pass (normal or draining).
PassStep == tick' = tick + 1

\* The planned copies of pass p whose destination folder does not exist.
MissingCopies(p) ==
    {i \in 1..Len(p.copies) : p.copies[i].dest_folder \notin p.dirs}

\* C24: missing destination folder.  A delivery pass creates no folder and
\* writes no file into a folder that does not exist; skipped_missing_folder
\* grows by the number of planned copies whose destination folder is missing,
\* delivered grows by the number of files written (none of them for such a
\* copy), and the source file of such a copy is still there after the pass.
C24_MissingDestinationFolder ==
    [][PassStep =>
         LET p == lastPass'
         IN  /\ dirs' = dirs
             /\ p.dirs = dirs
             /\ \A f \in files' \ files : f.folder \in dirs
             /\ stats'.skipped_missing_folder =
                    stats.skipped_missing_folder + Cardinality(MissingCopies(p))
             /\ stats'.delivered = stats.delivered + Cardinality(files' \ files)
             /\ \A i \in MissingCopies(p) :
                    /\ i \notin p.ok
                    /\ p.copies[i].msg \in files'
                    /\ p.copies[i].msg \in files]_vars

\* The last pass planned a copy into a folder that did not exist and wrote
\* another copy of the same source file; the source file is still there.
C24_Witness ==
    /\ lastPass # NoPass
    /\ \E i \in MissingCopies(lastPass), j \in lastPass.ok :
          /\ lastPass.copies[i].src = lastPass.copies[j].src
          /\ lastPass.copies[i].msg \in files
    /\ stats.skipped_missing_folder >= 1
    /\ stats.delivered >= 1

\* The folders pass p scans: router OUTBOX alone when draining.
PassFolders(p) == IF p.draining THEN {kOUTBOX} \cap p.dirs ELSE ScannedFolders(p)

\* The parseable files pass p found in a scanned folder, and those of them
\* whose channel matches no route of their folder.
SeenBy(p) == {f \in p.pre : f.ok /\ f.folder \in PassFolders(p)}

UnroutedSeen(p) == {f \in SeenBy(p) : MatchingRoutes(p, f) = {}}

\* What C25 says of the files and of seen, whatever the count of
\* discarded_unrouted: an unrouted file is deleted (deleted + 1) iff
\* router.discard_unrouted is true and stays otherwise, no copy of it is
\* planned, and seen counts the routed files only.
UnroutedHandling(p) ==
    /\ \A f \in UnroutedSeen(p) :
          /\ (f \notin files') <=> discard_unrouted
          /\ \A i \in 1..Len(p.copies) : p.copies[i].src # f.name
    /\ stats'.deleted = stats.deleted + Cardinality(files \ files')
    /\ stats'.seen = stats.seen + Cardinality(SeenBy(p) \ UnroutedSeen(p))

PassAttempt == PassStep \/ (rpc # "boot" /\ rpc' = "crashed")

\* The *.json files that fail to parse when the pass about to run scans them.
Unparseable ==
    {f \in files :
        /\ ~f.ok
        /\ f.folder \in Range(source_folders_of_pass(rroutes, rpc = "drain")) \cap dirs}

\* C26: partial writes by external producers are safe.  A *.json file of an
\* active source folder that fails to parse when a pass scans it is neither
\* copied nor deleted by that pass and counts skipped_unreadable + 1; what a
\* pass writes for a producer's message comes from a file that parsed.
C26_AsStated ==
    [][PassAttempt =>
         /\ Unparseable \subseteq files'
         /\ \A f \in Unparseable, c \in files' \ files :
                ~(c.signal = f.signal /\ c.timestamp = f.timestamp)
         /\ stats'.skipped_unreadable =
                stats.skipped_unreadable + Cardinality(Unparseable)
         /\ \A c \in files' \ files :
                c.signal = "payload" =>
                    \E f \in files : f.ok /\ f.folder = "/src"
                                      /\ f.timestamp = c.timestamp]_vars

\* ======================================================== Router claims (V)
\* C27: draining freezes routing.  Once g.mode is draining it stays draining,
\* the routing table never changes again and nothing more is appended to
\* events.jsonl (no route_added, no route_removed), whatever link or unlink
\* requests arrive in router INBOX afterwards.
C27_DrainingFreezesRouting ==
    [][mode = "draining" =>
         /\ mode' = "draining"
         /\ rroutes' = rroutes
         /\ events' = events]_vars

\* The router has stopped; a link request for a route the table does not hold
\* arrived in router INBOX while it was draining and is still there.
C27_Witness ==
    /\ rpc = "stopped"
    /\ mode = "draining"
    /\ \E m \in ctl_inbox :
          /\ m.name > LateName(0)
          /\ m.channel = "link"
          /\ HasAllFields(m.signal)
          /\ RouteOf(m.signal) \notin Range(rroutes)

\* What C28 says of the flag and of the order of the steps: quit_requested is
\* set by a processed quit message, and never reset; once it is set and the
\* tick is over, the router runs no normal-mode pass and reads no control
\* input, its next step enters draining mode, and it stops only out of the
\* drain loop, publishing status.json and routes.json.
CooperativeQuitSteps ==
    /\ quit_requested => quit_requested'
    /\ (rpc = "control" /\ rpc' = "publish"
           /\ \E m \in ctl_inbox : m.ok /\ m.channel = "quit") => quit_requested'
    /\ (quit_requested /\ rpc \in {"loop", "drain", "stopped"}) =>
          /\ PassStep => lastPass'.draining
          /\ rroutes' = rroutes /\ acks' = acks /\ ctl_inbox \subseteq ctl_inbox'
    /\ (quit_requested /\ rpc = "loop" /\ rpc' # rpc) =>
          rpc' = "drain" /\ mode' = "draining"
    /\ (rpc' = "stopped" /\ rpc # "stopped") =>
          /\ rpc = "drain" /\ quit_requested
          /\ status_json' = [tick |-> tick, stats |-> stats]
          /\ routes_json' = rroutes

\* C28: cooperative quit.  Once a quit control message has been processed (or
\* an interrupt caught) quit_requested is true and is never reset; the main
\* loop finishes the tick, runs no further normal-mode delivery pass or
\* control-input processing, and always proceeds to the draining sequence
\* followed by the final publication of status.json and routes.json: the
\* drain loop ends, every draining pass in which no write fails leaving fewer
\* deliverable messages in router OUTBOX than it found.
C28_AsStated ==
    [][/\ CooperativeQuitSteps
       /\ (quit_requested /\ DrainPassStep /\ fails' = fails)
             => Cardinality(Deliverable(files')) < Cardinality(Deliverable(files))]_vars

\* The flag and the order of the steps alone, without the end of the drain
\* loop (this part holds).
CooperativeQuitOrder == [][CooperativeQuitSteps]_vars

\* ======================================================= Router claims (VI)
\* Lines replay is to ignore: an unparseable line, a truncated last line, an
\* event of unknown type.
IgnorableLines == {GarbageLine, CutLine, EventLine("route_renamed", R2)}

\* The log with line g inserted after its first k lines.
InsertLine(log, k, g) == SubSeq(log, 1, k) \o <<g>> \o SubSeq(log, k + 1, Len(log))

\* C29: replay tolerance.  Replay applies a route_added event only if no equal
\* route is present, ignores a route_removed event for an absent route, and
\* skips unparseable lines (such as a truncated last line) and events of
\* unknown type: for any log, replaying it with such a line inserted anywhere
\* completes without error and yields the same table as replaying the log.
C29_AsStated ==
    /\ rpc # "crashed"
    /\ \A g \in IgnorableLines, k \in 0..Len(events) :
          replay_raises(events) \/
            /\ ~replay_raises(InsertLine(events, k, g))
            /\ replay_events_log_and_rebuild_routing_table(InsertLine(events, k, g))
                  = replay_events_log_and_rebuild_routing_table(events)
    /\ \A k \in 1..Len(events) :
          LET before == replay_events_log_and_rebuild_routing_table(SubSeq(events, 1, k - 1))
              after == replay_events_log_and_rebuild_routing_table(SubSeq(events, 1, k))
              line == events[k]
          IN  /\ (line.parses /\ line.event = "route_added")
                    => after = IF line.data \in Range(before) THEN before
                               ELSE Append(before, line.data)
              /\ (line.parses /\ line.event = "route_removed"
                     /\ line.data \notin Range(before)) => after = before

\* The acknowledgement write_acknowledgement leaves at ack_path.
AckFile(ack_path, channel) ==
    [path |-> ack_path, channel |-> "filetalk-patchboard-router-acknowledgement",
     signal |-> channel]

\* After handling a signal with ack-path the acknowledgement is at that path;
\* without ack-path the acknowledgements are as before.
Acknowledged(after, signal, channel) ==
    IF signal.ack_path = "" THEN after.acks = acks
    ELSE /\ AckFile(signal.ack_path, channel) \in after.acks
         /\ \A a \in after.acks : a.path = signal.ack_path => a.signal = channel

\* A control message lacking one of the four fields changes neither table nor
\* log and writes no acknowledgement.
IncompleteIgnored(signal) ==
    /\ handle_link_message(RouterTable, signal) = RouterTable
    /\ handle_unlink_message(RouterTable, signal) = RouterTable

TempFiles == {f \in disk : f.path.name.ext = "tmp"}

Complete(f) == f.bytes = MaxChunks

Writing == wr.pc \in {"mkstemp", "write", "replace"}

\* C31: at every instant during a router write, a file visible under its
\* final name holds a complete JSON document; incomplete content exists only
\* under a sibling temporary name that does not match *.json; the final path
\* keeps its old content until the rename, and a failed write removes the
\* temporary file and leaves the final path as it was.
C31_AtomicWrites ==
    /\ \A f \in disk :
          ~Complete(f) =>
              /\ Writing
              /\ f.path = mkstemp(wr.path)
              /\ f.path.dir = wr.path.dir
              /\ ~matches_json(f.path.name)
    /\ \A c \in WriteCalls : \A f \in FilesAt(disk, c.path) : Complete(f)
    /\ Writing => FilesAt(disk, wr.path) = wr.before
    /\ wr.pc = "raised" =>
          /\ TempFiles = {}
          /\ FilesAt(disk, wr.path) = wr.before
    /\ wr.pc = "returned" =>
          /\ TempFiles = {}
          /\ FilesAt(disk, wr.path) = {DiskFile(wr.path, wr.doc, MaxChunks)}

\* publish_status failed in the rename, after the whole of a new status
\* document had reached the temporary file: the old status.json is in place.
C31_Witness ==
    /\ wr.pc = "raised"
    /\ wr.raised_at = "replace"
    /\ wr.caller = "publish_status"
    /\ wr.doc = 2
    /\ wr.before = {DiskFile(wr.path, 1, MaxChunks)}
    /\ FilesAt(disk, wr.path) = wr.before

\* ======================================================================
\* IntraFlow claims (II)
\* ======================================================================
\* One iteration of the loop of activate_one_turn_per_component.
LoopStep == InPhase("activate") /\ idx' = idx + 1

Eligible(c) == inbox[c] # <<>> \/ always_active[c]

\* C32: activate_one_turn_per_component visits the components in registration
\* order, one per iteration, and activates a component iff its inbox is
\* non-empty or it is always_active; the message installed is the oldest inbox
\* message, removed from the inbox, when the inbox is non-empty, and null only
\* when the inbox is empty and the component is always_active.
C32_EligibilityAndOrder ==
    [][LoopStep =>
         /\ idx \in 1..Len(components)
         /\ \A i \in 1..Len(components) :
               LET c == components[i]
               IN  /\ (i < idx /\ Eligible(c)) => acts[c] = 1
                   /\ i > idx => acts[c] = 0
                   /\ i # idx => (acts'[c] = acts[c] /\ inbox'[c] = inbox[c])
         /\ LET comp == components[idx]
            IN  /\ acts[comp] = 0
                /\ acts'[comp] = IF Eligible(comp) THEN 1 ELSE 0
                /\ ~Eligible(comp) =>
                      /\ inbox' = inbox
                      /\ outbox' = outbox
                      /\ lastObs' = lastObs
                /\ Eligible(comp) =>
                      /\ lastObs'.comp = comp
                      /\ IF inbox[comp] # <<>>
                         THEN /\ lastObs'.msg = Head(inbox[comp])
                              /\ inbox'[comp] = Tail(inbox[comp])
                         ELSE /\ always_active[comp]
                              /\ lastObs'.msg = NoMsg
                              /\ inbox'[comp] = <<>>]_vars

\* In one Phase 2 an earlier component was activated and then, last, an
\* always_active component with an empty inbox got a null message.
C32_Witness ==
    /\ InPhase("activate")
    /\ idx > 1
    /\ lastObs.comp = components[idx - 1]
    /\ lastObs.cycle = cycle
    /\ lastObs.msg = NoMsg
    /\ always_active[lastObs.comp]
    /\ \E i \in 1..(idx - 2) : acts[components[i]] = 1

\* The positions of d's inbox that hold messages emitted by s.
FromSource(d, s) ==
    {i \in 1..Len(inbox[d]) : emitter[inbox[d][i].timestamp] = s}

\* C33: FIFO end to end. An outbox holds its component's messages in emission
\* order; the messages of one source stand in every destination inbox in
\* emission order, ahead of everything the source has not yet had routed; and
\* a destination's activation consumes a message of a source before every
\* other message of that source it still holds: no overtaking.
C33_FifoEndToEnd ==
    \A s \in Refs :
        /\ \A i, j \in 1..Len(outbox[s]) :
              /\ emitter[outbox[s][i].timestamp] = s
              /\ i < j => outbox[s][i].timestamp < outbox[s][j].timestamp
        /\ \A d \in Refs :
              /\ \A i, j \in FromSource(d, s) :
                    i < j => inbox[d][i].timestamp <= inbox[d][j].timestamp
              /\ \A i \in FromSource(d, s), k \in 1..Len(outbox[s]) :
                    inbox[d][i].timestamp < outbox[s][k].timestamp
        /\ (lastObs.msg # NoMsg /\ emitter[lastObs.msg.timestamp] = s) =>
              \A i \in FromSource(lastObs.comp, s) :
                  lastObs.msg.timestamp <= inbox[lastObs.comp][i].timestamp

\* A destination has consumed a message of a source while a later message of
\* the same source waits in its inbox.
C33_Witness ==
    /\ lastObs.msg # NoMsg
    /\ emitter[lastObs.msg.timestamp] \in Refs
    /\ \E i \in FromSource(lastObs.comp, emitter[lastObs.msg.timestamp]) :
          lastObs.msg.timestamp < inbox[lastObs.comp][i].timestamp

\* ======================================================================
\* Router claims (VIII)
\* ======================================================================
\* The copies a pass planned are those the table it started with asks for.
PlannedFrom(p, table) ==
    /\ p.routes = table
    /\ \A i \in 1..Len(p.copies) :
          \E k \in 1..Len(table) : p.copies[i] = CopyOp(p.copies[i].msg, table[k])
    /\ \A f \in p.pre, k \in 1..Len(table) :
          (/\ f.ok
           /\ f.folder \in p.dirs
           /\ ~p.draining \/ f.folder = kOUTBOX
           /\ RouteMatches(table[k], f))
          => \E i \in 1..Len(p.copies) : p.copies[i] = CopyOp(f, table[k])

\* C34: within a main-loop tick the delivery pass, control-input processing
\* and publication run one after the other. A delivery pass plans, copies and
\* deletes with the table it started with and leaves the table as it is; the
\* table changes only in process_control_inputs, after the pass of the same
\* tick has applied the old table (routes being removed included, routes being
\* added not) and before the next pass.
C34_TickOrdering ==
    [][/\ PassStep =>
             /\ rroutes' = rroutes
             /\ PlannedFrom(lastPass', rroutes)
             /\ (rpc = "loop") => (rpc' = "control")
       /\ (rpc = "control" /\ rpc' # rpc) => rpc' \in {"publish", "loop"}
       /\ (rpc = "control" /\ rpc' = "loop") => quit_requested'
       /\ (rpc = "publish" /\ rpc' # rpc) => rpc' = "loop"
       /\ (rroutes' # rroutes /\ rpc # "boot") =>
             /\ rpc = "control" /\ rpc' = "publish"
             /\ tick' = tick /\ files' = files /\ lastPass' = lastPass
             /\ PlannedFrom(lastPass, rroutes)]_vars

LastStartup == CHOOSE i \in 1..Len(events) :
                   /\ events[i].event = "startup"
                   /\ \A j \in (i + 1)..Len(events) : events[j].event # "startup"

\* A route added by a link message in an earlier tick of this run has just
\* been applied by a delivery pass, which copied a message along it.
C34_Witness ==
    /\ rpc = "control"
    /\ tick >= 2
    /\ \E j \in (LastStartup + 1)..Len(events), i \in lastPass.ok :
          /\ events[j].event = "route_added"
          /\ events[j].data \in Range(rroutes)
          /\ lastPass.copies[i] = CopyOp(lastPass.copies[i].msg, events[j].data)

\* The files pass p found in the folders S, and how many of them it could not
\* parse.
FoundIn(p, S) == {f \in p.pre : f.folder \in S \cap p.dirs}

UnreadableIn(p, S) == Cardinality({f \in FoundIn(p, S) : ~f.ok})

\* Pass p, which ended with the counters st, read, copied and deleted files
\* of the folders S only, and read each file of them once.
TouchesOnly(p, st, S) ==
    /\ \A i \in 1..Len(p.copies) : p.copies[i].msg \in FoundIn(p, S)
    /\ \A i \in 1..Len(p.deletes) :
          \E f \in FoundIn(p, S) : f.name = p.deletes[i]
    /\ \A f \in p.pre \ FoundIn(p, S) : f \in p.post
    /\ st.skipped_unreadable - p.stats0.skipped_unreadable = UnreadableIn(p, S)
    /\ \A f \in FoundIn(p, S) :
          Cardinality(PlannedFor(p, f.name))
              = IF f.ok THEN Cardinality(MatchingRoutes(p, f)) ELSE 0

\* C35: once draining has begun every pass is a draining pass, and a draining
\* pass reads, copies and deletes files of router OUTBOX only; in normal mode
\* the source folders of a pass are the distinct source-folders of the routing
\* table plus router OUTBOX, each listed once and each scanned once.
C35_DrainingTouchesOutboxOnly ==
    [][PassStep =>
         LET p == lastPass'
             sources == source_folders_of_pass(rroutes, FALSE)
         IN  /\ p.draining <=> mode = "draining"
             /\ p.draining => TouchesOnly(p, stats', {kOUTBOX})
             /\ ~p.draining =>
                   /\ Range(sources)
                         = {rroutes[i].source_folder : i \in 1..Len(rroutes)}
                               \cup {kOUTBOX}
                   /\ \A i, j \in 1..Len(sources) : sources[i] = sources[j] => i = j
                   /\ TouchesOnly(p, stats', Range(sources))]_vars

\* A draining pass delivered from router OUTBOX and left a parseable, routed
\* message of another source folder where it was.
C35_Witness ==
    /\ lastPass.draining
    /\ lastPass.ok # {}
    /\ \E f \in lastPass.pre :
          /\ f.folder = "/src"
          /\ f.ok
          /\ MatchingRoutes(lastPass, f) # {}
          /\ {"/src", kOUTBOX} \subseteq lastPass.dirs
          /\ f \in files

\* A route as add_route would store it now.
Canonical(route) ==
    [route EXCEPT !.source_folder = canonicalize_path(@),
                  !.destination_folder = canonicalize_path(@)]

NoDuplicates(table) ==
    \A i, j \in 1..Len(table) : Canonical(table[i]) = Canonical(table[j]) => i = j

\* The arguments of add_route / remove_route calls: the four fields of the
\* complete link / unlink signals, paths as the client spelled them.
RouteArgs == {signal \in RoundTripSignals : HasAllFields(signal)}

\* C36: after replay and any sequence of add_route and remove_route the
\* routing table holds no two routes that are equal after path
\* canonicalization; add_route of a route already present returns False and
\* changes neither table, event log nor dirty flags, and so does remove_route
\* of an absent route; add_route of an absent route and remove_route of a
\* present one return True and keep the table free of duplicates.
C36_NoDuplicateRoutes ==
    rpc \notin {"off", "boot"} =>
        /\ NoDuplicates(rroutes)
        /\ \A a \in RouteArgs :
              LET added == add_route(RouterTable, a.source_folder, a.source_channel,
                                     a.destination_channel, a.destination_folder)
                  removed == remove_route(RouterTable, a.source_folder,
                                          a.source_channel, a.destination_channel,
                                          a.destination_folder)
                  add_ok == add_route_returns(RouterTable, a.source_folder,
                                              a.source_channel, a.destination_channel,
                                              a.destination_folder)
                  remove_ok == remove_route_returns(RouterTable, a.source_folder,
                                                    a.source_channel,
                                                    a.destination_channel,
                                                    a.destination_folder)
              IN  /\ NoDuplicates(added.routes) /\ NoDuplicates(removed.routes)
                  /\ add_ok = ~remove_ok
                  /\ remove_ok = (RouteOf(a) \in Range(rroutes))
                  /\ ~add_ok => added = RouterTable
                  /\ ~remove_ok => removed = RouterTable
                  /\ add_ok => Len(added.routes) = Len(rroutes) + 1
                  /\ remove_ok => /\ Len(removed.routes) = Len(rroutes) - 1
                                  /\ RouteOf(a) \notin Range(removed.routes)

\* process_control_inputs is about to handle a link request for a route the
\* table holds, spelled with a path that is not canonical.
C36_Witness ==
    /\ rpc = "control"
    /\ Len(rroutes) >= 2
    /\ \E m \in ctl_inbox :
          /\ m.ok
          /\ m.channel = "link"
          /\ HasAllFields(m.signal)
          /\ RouteOf(m.signal) \in Range(rroutes)
          /\ canonicalize_path(m.signal.source_folder) # m.signal.source_folder

\* ======================================================================
\* IntraFlow claims (III)
\* ======================================================================
\* C37 as stated: run(0) reaches its fixpoint. The activations of a behaviour
\* emit MaxMsgs messages at most, so finitely many; whatever the registry and
\* the routing table, run(0) returns, and then every registered component's
\* inbox and outbox is empty.
C37_AsStated ==
    /\ (pc = "cycle" /\ cycles = 0) ~> (pc = "done")
    /\ [](pc = "done" /\ cycles = 0 =>
             is_quiescent(components, inbox, outbox))

\* During an activation the context holds the activating component and the
\* message popped for it.
ContextInstalled ==
    pc = "activation" =>
        /\ context.component = components[idx]
        /\ context.msg = lastObs.msg
        /\ lastObs.comp = components[idx]

\* C38 as stated: whenever no activation is executing (before the first
\* cycle, between activations, after run_cycle returns, and after an
\* activation fault has propagated out of run / run_cycle) the activation
\* context is clear; during an activation it holds exactly the activating
\* component and the message popped for it.
C38_AsStated ==
    /\ ContextInstalled
    /\ pc # "activation" => context = NoContext

\* The part of C38 that holds: the context is clear whenever no activation is
\* executing and none has raised.
ContextClearUnlessRaised ==
    /\ ContextInstalled
    /\ pc \notin {"activation", "raised"} => context = NoContext

\* ------------------------------------------------- Adapter claims (II)
IsPrefixOf(s, t) == Len(s) <= Len(t) /\ SubSeq(t, 1, Len(s)) = s

\* In AdapterSpec only the adapter writes to the wrapped container, so every
\* message in store[c] is one the adapter forwarded from its inbox.
\* C39 as stated: a message that a list or queue adapter has forwarded into
\* the wrapped container stays there across the adapter's later activations
\* (only the external consumer removes it), and the adapter never moves such a
\* message from the container back into its own outbox.
C39_AsStated ==
    [][\A c \in Refs :
          (adapter_kind[c] \in {"list", "queue"} /\ AdapterTurnOf(c)) =>
              /\ IsPrefixOf(store[c], store'[c])
              /\ outbox'[c] = outbox[c]]_vars

\* ------------------------------------------------- Router claims (IX)
\* A step that executes do_delivery_pass: the initial pass of cmd_run, a pass
\* of the main loop, or a pass of the drain loop.
ExecutesPass ==
    \/ rpc = "initpass" /\ rpc' = "initpublish"
    \/ rpc = "loop" /\ rpc' = "control"
    \/ /\ rpc = "drain" /\ rpc' = "drain"
       /\ lastPass'.draining
       /\ lastPass'.pre = files
       /\ lastPass'.post = files'
       /\ lastPass'.stats0 = stats
       /\ UNCHANGED <<dirs, dropped, sent, ctl_inbox>>

StatNames ==
    {"seen", "delivered", "deleted", "skipped_unreadable",
     "skipped_missing_folder", "discarded_unrouted"}

\* C40: the router starts with tick 0 and all six counters 0; no step lowers
\* any of the six stats counters; tick grows by one in exactly the steps that
\* execute a delivery pass (normal or draining) and is unchanged in all
\* others, so it equals the number of passes executed; and in every reachable
\* state deleted <= seen + discarded_unrouted.
C40_CounterInvariants ==
    /\ tick = 0 /\ stats = ZeroStats /\ DOMAIN stats = StatNames
    /\ [][/\ \A k \in StatNames : stats'[k] >= stats[k]
          /\ tick' = IF ExecutesPass THEN tick + 1 ELSE tick]_vars
    /\ [](stats.deleted <= stats.seen + stats.discarded_unrouted)

\* The router has stopped after normal and draining passes that counted in
\* every way the claim names: files seen, delivered and deleted, an unrouted
\* file discarded.
C40_Witness ==
    /\ rpc = "stopped"
    /\ lastPass.draining
    /\ tick >= 3
    /\ stats.seen >= 1
    /\ stats.deleted >= 2
    /\ stats.discarded_unrouted >= 1

====
